---- MODULE Spec2Model ----
(***************************************************************************)
(* Semantic-search session of src/app/semantic-search/page.tsx.            *)
(*                                                                         *)
(* The React component keeps the aggregated result set, the continuation   *)
(* token table and the pagination flags in component state.  Every async   *)
(* handler is cut at its awaits: the code between two awaits runs without  *)
(* interleaving (one JavaScript task, state updates batched), so it is one *)
(* action; the awaited request is a record in `searches` or `rounds` until *)
(* its response arrives.                                                   *)
(***************************************************************************)
EXTENDS Integers, Sequences, FiniteSets, TLC

(***************************************************************************)
(* Bounds of the model.                                                    *)
(***************************************************************************)
\* Queries issued in a behaviour.
MaxQueries == 1
\* Further queries issued in the specifications that study superseded requests.
MaxSuperseding == 1
\* Continuation rounds dispatched in a behaviour.
MaxRounds == 1
\* Hits in one backend response.
MaxBatch == 1
\* Hits in the first page of the specification that studies the view.
MaxViewLen == 2

(***************************************************************************)
(* Program constants and the environment.                                  *)
(***************************************************************************)
itemsPerPage == 24

brandIndexId == "brand"
creatorIndexId == "creator"
Partitions == {brandIndexId, creatorIndexId}

NoDetails == [present |-> FALSE, width |-> 0, height |-> 0]

RawHit(v, s, e, ix, c, sc) ==
  [video_id |-> v, start |-> s, end |-> e, index_id |-> ix,
   confidence |-> c, score |-> sc, videoDetails |-> NoDetails,
   format |-> "undefined"]

\* The hits the two backends can return.  The first two share the identity
\* key (v1, 10, 20) and come from different partitions.
Corpus ==
  { RawHit("v1", 10, 20, brandIndexId, "high", 2),
    RawHit("v1", 10, 20, creatorIndexId, "low", 1),
    RawHit("v2", 0, 5, creatorIndexId, "medium", 1) }

\* system_metadata of a video as the detail endpoint reports it; 0 stands
\* for a missing dimension.
SystemMetadata(v) ==
  CASE v = "v1" -> [present |-> TRUE, width |-> 1920, height |-> 1080]
    [] v = "v2" -> [present |-> TRUE, width |-> 1080, height |-> 1920]
    [] v = "v3" -> [present |-> TRUE, width |-> 1000, height |-> 1000]
    [] OTHER    -> [present |-> TRUE, width |-> 0, height |-> 0]

\* Continuation tokens.  A token names the query it was issued for and the
\* page it points to; Null is the null token.
Null == [q |-> 0, n |-> 0]
Token(q, n) == [q |-> q, n |-> n]

SeqsUpTo(S, n) == UNION { [1..k -> S] : k \in 0..n }

(***************************************************************************)
(* Pure helpers of the page.                                               *)
(***************************************************************************)
\* `${item.video_id}_${item.start}_${item.end}`: start and end are numbers,
\* so the string determines the triple.
ItemKey(h) == <<h.video_id, h.start, h.end>>

Keys(s) == { ItemKey(s[i]) : i \in 1..Len(s) }

\* nextPageTokens[indexId] tested for truthiness: a missing entry and null
\* are both falsy.
StoredToken(tokens, p) == IF p \in DOMAIN tokens THEN tokens[p] ELSE Null

\* Object.values(newTokens).some((token) => token !== null)
SomeTokenNotNull(tokens) == \E p \in DOMAIN tokens : tokens[p] # Null

\* A merge that puts the new hits in front of the hits already held.
MergePrepend(prev, incoming) ==
  LET existingIds == Keys(prev)
      IsNew(item) == ItemKey(item) \notin existingIds
  IN  SelectSeq(incoming, IsNew) \o prev

\* A merge that appends the batch without looking at the keys already held.
MergeAppendAll(prev, incoming) == prev \o incoming

\* The functional update of setEnhancedResults in loadMoreResults.
MergeUnique(prev, incoming) ==
  LET existingIds == Keys(prev)
      IsNew(item) == ItemKey(item) \notin existingIds
  IN  prev \o SelectSeq(incoming, IsNew)

\* A format derivation that gives a square video the vertical format.
DeriveFormatStrict(d) ==
  IF d.width # 0 /\ d.height # 0
    THEN (IF d.width > d.height THEN "horizontal" ELSE "vertical")
    ELSE "undefined"

\* Format derivation of fetchVideoDetailsForResults.
DeriveFormat(d) ==
  IF d.width # 0 /\ d.height # 0
    THEN (IF d.width >= d.height THEN "horizontal" ELSE "vertical")
    ELSE "undefined"

\* One element of the Promise.all in fetchVideoDetailsForResults: ok is the
\* outcome of fetchVideoDetails for this hit.
WithDetails(result, ok) ==
  IF ok
    THEN [result EXCEPT !.videoDetails = SystemMetadata(result.video_id),
                        !.format = DeriveFormat(SystemMetadata(result.video_id))]
    ELSE result

\* A detail fetch without the per-hit catch: one failure rejects the
\* Promise.all and no result comes back.
UpdatedResultsAllOrNothing(results, oks) ==
  IF \A i \in 1..Len(results) : oks[i]
    THEN [i \in 1..Len(results) |-> WithDetails(results[i], TRUE)]
    ELSE <<>>

\* await Promise.all(results.map(...)) of fetchVideoDetailsForResults.
UpdatedResults(results, oks) ==
  [i \in 1..Len(results) |-> WithDetails(results[i], oks[i])]

\* confidence.toLowerCase() on the tier names the backends use.
ToLowerCase(confidence) ==
  CASE confidence = "High" -> "high"
    [] confidence = "Medium" -> "medium"
    [] confidence = "Low" -> "low"
    [] OTHER -> confidence

getConfidencePriority(confidence) ==
  CASE ToLowerCase(confidence) = "high" -> 3
    [] ToLowerCase(confidence) = "medium" -> 2
    [] ToLowerCase(confidence) = "low" -> 1
    [] OTHER -> 0

\* A hit whose score is absent carries NoScore; (x.score || 0).
NoScore == -1
ScoreOf(h) == IF h.score = NoScore THEN 0 ELSE h.score

\* A comparator that looks at the score alone.
CompareByScore(a, b) == ScoreOf(b) - ScoreOf(a)

\* The comparator of the sort in filteredResults: negative puts a first.
Compare(a, b) ==
  LET confidenceDiff ==
        getConfidencePriority(b.confidence) - getConfidencePriority(a.confidence)
  IN  IF confidenceDiff = 0 THEN ScoreOf(b) - ScoreOf(a) ELSE confidenceDiff

\* An insertion that puts x in front of the elements it ties with.
RECURSIVE InsertBeforeTies(_, _)
InsertBeforeTies(x, s) ==
  IF s = <<>> THEN <<x>>
  ELSE IF Compare(x, Head(s)) <= 0 THEN <<x>> \o s
  ELSE <<Head(s)>> \o InsertBeforeTies(x, Tail(s))

\* Array.prototype.sort is stable: x goes behind every element that does not
\* compare greater than it.
RECURSIVE InsertSorted(_, _)
InsertSorted(x, s) ==
  IF s = <<>> THEN <<x>>
  ELSE IF Compare(x, Head(s)) < 0 THEN <<x>> \o s
  ELSE <<Head(s)>> \o InsertSorted(x, Tail(s))

RECURSIVE SortResults(_)
SortResults(s) ==
  IF s = <<>> THEN <<>>
  ELSE InsertSorted(s[Len(s)], SortResults(SubSeq(s, 1, Len(s) - 1)))

\* A filter that applies the index selection and forgets the formats.
FilteredByIndex(results, filter, formats) ==
  LET Keep(r) ==
        \/ filter = "all"
        \/ filter = "brands" /\ r.index_id = brandIndexId
        \/ filter = "creators" /\ r.index_id = creatorIndexId
  IN  SelectSeq(results, Keep)

\* The two filters of filteredResults, before the sort.
Filtered(results, filter, formats) ==
  LET ByIndex(r) ==
        \/ filter = "all"
        \/ filter = "brands" /\ r.index_id = brandIndexId
        \/ filter = "creators" /\ r.index_id = creatorIndexId
      ByFormat(r) == formats = {} \/ r.format \in formats
      Keep(r) == ByIndex(r) /\ ByFormat(r)
  IN  SelectSeq(results, Keep)

filteredResults(results, filter, formats) ==
  SortResults(Filtered(results, filter, formats))

\* filteredResults sorts in place.  With filter "all" and no format filter
\* the array it sorts is the enhancedResults array itself, so the state holds
\* the sorted order once the component has rendered.
Rendered(results, filter, formats) ==
  IF filter = "all" /\ formats = {} THEN SortResults(results) ELSE results

\* The requests loadMoreResults pushes: one per index whose captured token is
\* truthy.
Requests(tokens) == { p \in Partitions : StoredToken(tokens, p) # Null }

\* process.env order of the requests array: brand first, then creator.
RequestOrder == <<brandIndexId, creatorIndexId>>

(***************************************************************************)
(* What the backends can answer.                                           *)
(***************************************************************************)
NoTokens == [p \in {} |-> Null]

\* nextPageTokens of an initial response issued for query v: missing, or one
\* entry per index, null or the token of page 1.
InitialTokens(v) == {NoTokens} \cup [Partitions -> {Null, Token(v, 1)}]

\* hasMore of an initial response: missing, or the server's own view of its
\* tokens.
ServerHasMore(tokens) ==
  {"undefined", IF SomeTokenNotNull(tokens) THEN "true" ELSE "false"}

\* pageInfoByIndex[indexId]?.total_results || 0 for both indices.
DeclaredTotals == [Partitions -> {0, 5}]

PartitionHits(p) == { h \in Corpus : h.index_id = p }

NoResponse == [arrived |-> FALSE, hasData |-> FALSE, data |-> <<>>, next |-> Null]

\* A successful answer of /api/search/byToken for token t of index p: a body
\* without data, or a page of hits of that index with the token of the next
\* page or none.
TokenResponses(p, t) ==
  {[arrived |-> TRUE, hasData |-> FALSE, data |-> <<>>, next |-> Null]}
    \cup [arrived : {TRUE}, hasData : {TRUE},
          data : SeqsUpTo(PartitionHits(p), MaxBatch),
          next : {Null, Token(t.q, t.n + 1)}]

ErrorKinds == {"500", "429", "401", "other", "nonError"}

\* The message handleTextSearch shows for a failed request.
ErrorMessage(kind) ==
  CASE kind = "500" -> "Search service is temporarily unavailable. Please try again in a few moments."
    [] kind = "429" -> "Too many requests. Please wait a moment before searching again."
    [] kind = "401" -> "Authentication error. Please contact support."
    [] kind = "other" -> "Search failed. Please try again."
    [] OTHER -> "An unexpected error occurred. Please try again."

(***************************************************************************)
(* Creator-brand match page: pure helpers.  Scores are in thousandths and  *)
(* the search scores are multiples of 20, so the 15% boost is exact.       *)
(***************************************************************************)
\* Longest result list one similarity search returns.
MaxMatches == 2
\* Duration of the video of the player, in hundredths of a second.
MaxTime == 8

\* metadata?.tl_video_id of a result that carries none.
NoVideoId == "undefined"
TargetVideos == {"m1", "m2"}
SearchScores == {600, 800, 1200}

\* One EmbeddingSearchResult as a similarity search returns it.
EmbeddingSearchResult(videoId, score) ==
  [videoId |-> videoId, score |-> score, textScore |-> NoScore,
   videoScore |-> NoScore, originalSource |-> "undefined"]

SearchResults ==
  { EmbeddingSearchResult(v, sc) : v \in TargetVideos, sc \in SearchScores }
    \cup { EmbeddingSearchResult(NoVideoId, 800) }

SearchResultLists == SeqsUpTo(SearchResults, MaxMatches)

\* Scores on and around the two level thresholds, 1 and 0.5.
ThresholdScores == {400, 500, 1000}

ThresholdResults ==
  { EmbeddingSearchResult(v, sc) : v \in TargetVideos, sc \in ThresholdScores }
    \cup { EmbeddingSearchResult(NoVideoId, 500) }

ThresholdResultLists == SeqsUpTo(ThresholdResults, MaxMatches)

\* Levels from the score alone, whatever the origin.
getMatchLevelByScore(score, source) ==
  IF score >= 1000 THEN "High"
  ELSE IF score >= 500 THEN "Medium"
  ELSE "Low"

\* Levels with the thresholds themselves left out.
getMatchLevelStrict(score, source) ==
  IF source = "BOTH" THEN "High"
  ELSE IF score > 1000 THEN "High"
  ELSE IF score > 500 THEN "Medium"
  ELSE "Low"

getMatchLevel(score, source) ==
  IF source = "BOTH" THEN "High"
  ELSE IF score >= 1000 THEN "High"
  ELSE IF score >= 500 THEN "Medium"
  ELSE "Low"

getMatchLevelPriority(level) ==
  CASE level = "High" -> 3
    [] level = "Medium" -> 2
    [] level = "Low" -> 1
    [] OTHER -> 0

\* A boost taken from the mean of the two scores.
boostedScoreOfMean(textScore, videoScore) ==
  (((textScore + videoScore) \div 2) * 115) \div 100

\* Math.max(textScore, videoScore) * 1.15
boostedScore(textScore, videoScore) ==
  ((IF textScore >= videoScore THEN textScore ELSE videoScore) * 115) \div 100

\* Map.has / Map.get / Map.set on a map kept as the sequence of its values in
\* insertion order; set on a present key replaces the value in place.
MapHas(resultMap, videoId) ==
  \E i \in 1..Len(resultMap) : resultMap[i].videoId = videoId

MapGet(resultMap, videoId) ==
  resultMap[CHOOSE i \in 1..Len(resultMap) : resultMap[i].videoId = videoId]

\* A set that adds an entry whether or not the key is present.
MapSetAppends(resultMap, videoId, value) ==
  Append(resultMap, value)

MapSet(resultMap, videoId, value) ==
  IF MapHas(resultMap, videoId)
  THEN [i \in 1..Len(resultMap) |->
          IF resultMap[i].videoId = videoId THEN value ELSE resultMap[i]]
  ELSE Append(resultMap, value)

\* textResults.forEach of combineSearchResults.
RECURSIVE ProcessTextResults(_, _)
ProcessTextResults(resultMap, textResults) ==
  IF textResults = <<>> THEN resultMap
  ELSE LET result == Head(textResults)
           videoId == result.videoId
       IN  ProcessTextResults(
             IF videoId # NoVideoId
             THEN MapSet(resultMap, videoId,
                         [result EXCEPT !.textScore = result.score,
                                        !.originalSource = "TEXT"])
             ELSE resultMap,
             Tail(textResults))

\* videoResults.forEach of combineSearchResults.
RECURSIVE ProcessVideoResults(_, _)
ProcessVideoResults(resultMap, videoResults) ==
  IF videoResults = <<>> THEN resultMap
  ELSE LET result == Head(videoResults)
           videoId == result.videoId
       IN  ProcessVideoResults(
             IF videoId = NoVideoId THEN resultMap
             ELSE IF MapHas(resultMap, videoId)
             THEN LET existingResult == MapGet(resultMap, videoId)
                      textScore == IF existingResult.textScore = NoScore THEN 0
                                   ELSE existingResult.textScore
                      videoScore == result.score
                  IN  MapSet(resultMap, videoId,
                             [existingResult EXCEPT
                                !.score = boostedScore(textScore, videoScore),
                                !.videoScore = videoScore,
                                !.textScore = textScore,
                                !.originalSource = "BOTH"])
             ELSE MapSet(resultMap, videoId,
                         [result EXCEPT !.videoScore = result.score,
                                        !.originalSource = "VIDEO"]),
             Tail(videoResults))

\* The comparator of the final sort: level priority, then score.
CompareMatches(a, b) ==
  LET levelPriorityA ==
        getMatchLevelPriority(getMatchLevel(a.score, a.originalSource))
      levelPriorityB ==
        getMatchLevelPriority(getMatchLevel(b.score, b.originalSource))
  IN  IF levelPriorityA # levelPriorityB THEN levelPriorityB - levelPriorityA
      ELSE b.score - a.score

\* An insertion that puts x in front of the matches it ties with.
RECURSIVE InsertMatchBeforeTies(_, _)
InsertMatchBeforeTies(x, s) ==
  IF s = <<>> THEN <<x>>
  ELSE IF CompareMatches(x, Head(s)) <= 0 THEN <<x>> \o s
  ELSE <<Head(s)>> \o InsertMatchBeforeTies(x, Tail(s))

RECURSIVE InsertMatch(_, _)
InsertMatch(x, s) ==
  IF s = <<>> THEN <<x>>
  ELSE IF CompareMatches(x, Head(s)) < 0 THEN <<x>> \o s
  ELSE <<Head(s)>> \o InsertMatch(x, Tail(s))

RECURSIVE SortMatches(_)
SortMatches(s) ==
  IF s = <<>> THEN <<>>
  ELSE InsertMatch(s[Len(s)], SortMatches(SubSeq(s, 1, Len(s) - 1)))

combineSearchResults(textResults, videoResults) ==
  SortMatches(ProcessVideoResults(ProcessTextResults(<<>>, textResults),
                                  videoResults))

(***************************************************************************)
(* State.                                                                  *)
(***************************************************************************)
VARIABLES
  enhancedResults,   \* SearchResult[]
  totalResults,      \* {all, brands, creators}
  nextPageTokens,    \* Record<string, string | null>
  hasMoreResults,
  isLoadingMore,
  isSearching,
  hasSearched,
  error,             \* message or "null"
  currentPage,
  activeFilter,      \* "all" | "brands" | "creators"
  activeFilters,     \* set of format filters
  imageSrc,          \* an image query is selected
  searches,          \* text and image searches awaiting a response
  rounds,            \* continuation rounds awaiting responses
  queryVersion,      \* history: number of queries issued so far
  roundCount,        \* history: number of continuation rounds dispatched
  stored,            \* history: the current query's first page is stored
  dropped,           \* history: hits the last merge left out as duplicates
  declared,          \* history: totals the last initial response declared
  emptyRound,        \* history: a round of the query issued last ended without hits
  sourceType,        \* match page: "brand" | "creator"
  selectedVideoId,   \* match page: a source video or "null"
  isAnalyzing,
  similarResults,    \* match page: EmbeddingSearchResult[]
  isLoadingEmbeddings,
  isProcessingTargetEmbeddings,
  embeddingsReady,
  analysis,          \* the handleFindMatches call awaiting a response
  combined,          \* history: the lists similarResults was combined from
  ended,             \* history: how the last handleFindMatches call ended
  videoPlayer        \* the VideoPlayer component: its props, its state, its video element

view == <<enhancedResults, totalResults, nextPageTokens, hasMoreResults,
          isLoadingMore, isSearching, hasSearched, error, currentPage,
          activeFilter, activeFilters, imageSrc>>
tasks == <<searches, rounds>>
history == <<queryVersion, roundCount, stored, dropped, declared, emptyRound>>
match == <<sourceType, selectedVideoId, isAnalyzing, similarResults,
           isLoadingEmbeddings, isProcessingTargetEmbeddings, embeddingsReady,
           analysis, combined, ended>>
vars == <<view, tasks, history, match, videoPlayer>>

\* Times of the player are in hundredths of a second.  An absent startTime or endTime.
NoTime == -1

\* The component before its first render.
NotRendered ==
  [rendered |-> FALSE, startTime |-> NoTime, endTime |-> NoTime,
   playing |-> FALSE, ended |-> FALSE, currentTime |-> 0,
   isVideoReady |-> FALSE, video |-> 0, looped |-> FALSE]

NoTotals == [all |-> 0, brands |-> 0, creators |-> 0]

\* No partition declared a total.
NoDeclared == [p \in Partitions |-> 0]

\* similarResults was cleared, or never set.
NotCombined ==
  [textResults |-> <<>>, videoResults |-> <<>>,
   videoId |-> "null", sourceType |-> "brand"]

\* No handleFindMatches call is awaiting anything.
Idle ==
  [pc |-> "idle", videoId |-> "null", sourceType |-> "brand",
   textArrived |-> FALSE, textResults |-> <<>>,
   videoArrived |-> FALSE, videoResults |-> <<>>]

Init ==
  /\ enhancedResults = <<>>
  /\ totalResults = NoTotals
  /\ nextPageTokens = NoTokens
  /\ hasMoreResults = FALSE
  /\ isLoadingMore = FALSE
  /\ isSearching = FALSE
  /\ hasSearched = FALSE
  /\ error = "null"
  /\ currentPage = 1
  /\ activeFilter = "all"
  /\ activeFilters = {}
  /\ imageSrc = FALSE
  /\ searches = {}
  /\ rounds = {}
  /\ queryVersion = 0
  /\ roundCount = 0
  /\ stored = FALSE
  /\ dropped = 0
  /\ declared = NoDeclared
  /\ emptyRound = FALSE
  /\ sourceType = "brand"
  /\ selectedVideoId = "null"
  /\ isAnalyzing = FALSE
  /\ similarResults = <<>>
  /\ isLoadingEmbeddings = FALSE
  /\ isProcessingTargetEmbeddings = FALSE
  /\ embeddingsReady = FALSE
  /\ analysis = Idle
  /\ combined = NotCombined
  /\ ended = "never"
  /\ videoPlayer = NotRendered

\* State update of enhancedResults followed by the render it causes.
SetEnhancedResults(results) ==
  enhancedResults' = Rendered(results, activeFilter, activeFilters)

allResultCount ==
  IF totalResults.all > 0 THEN totalResults.all ELSE Len(enhancedResults)

brandResultCount ==
  IF totalResults.brands > 0 THEN totalResults.brands
  ELSE Len(Filtered(enhancedResults, "brands", {}))

creatorResultCount ==
  IF totalResults.creators > 0 THEN totalResults.creators
  ELSE Len(Filtered(enhancedResults, "creators", {}))

\* The segments of the filter bar that are rendered.
VisibleSegments ==
  {"all"} \cup (IF brandResultCount > 0 THEN {"brands"} ELSE {})
          \cup (IF creatorResultCount > 0 THEN {"creators"} ELSE {})

\* The infinite-scroll sentinel is part of the page.
SentinelMounted ==
  /\ ~isSearching
  /\ Len(filteredResults(enhancedResults, activeFilter, activeFilters)) > 0
  /\ hasMoreResults

\* Totals with the two partitions taken for one another.
TotalsOfSwapped(pageInfo) ==
  [all |-> pageInfo[brandIndexId] + pageInfo[creatorIndexId],
   brands |-> pageInfo[creatorIndexId],
   creators |-> pageInfo[brandIndexId]]

TotalsOf(pageInfo) ==
  [all |-> pageInfo[brandIndexId] + pageInfo[creatorIndexId],
   brands |-> pageInfo[brandIndexId],
   creators |-> pageInfo[creatorIndexId]]

\* What the user can have typed; String.prototype.trim of it.
Queries == {"", " ", "cats"}
Trim(text) == IF text = " " THEN "" ELSE text

(***************************************************************************)
(* handleTextSearch                                                        *)
(***************************************************************************)
\* Lines 521-535: up to the await of the request.
HandleTextSearch ==
  /\ \E searchQuery \in Queries : Trim(searchQuery) # ""
  /\ isSearching' = TRUE
  /\ error' = "null"
  /\ SetEnhancedResults(<<>>)
  /\ hasSearched' = TRUE
  /\ searches' = searches \cup
       {[id |-> queryVersion + 1, kind |-> "text", pc |-> "search", results |-> <<>>]}
  /\ queryVersion' = queryVersion + 1
  /\ stored' = FALSE
  /\ dropped' = 0
  /\ UNCHANGED <<totalResults, nextPageTokens, hasMoreResults, isLoadingMore,
                 currentPage, activeFilter, activeFilters, imageSrc, rounds,
                 roundCount>>
  /\ UNCHANGED declared
  /\ emptyRound' = FALSE
  /\ UNCHANGED <<match, videoPlayer>>

\* Lines 584-590.
HasMore(serverHasMore, allResults) ==
  LET brandResults == Filtered(allResults, "brands", {})
      creatorResults == Filtered(allResults, "creators", {})
      clientHasMore ==
        /\ Len(allResults) >= itemsPerPage
        /\ (Len(brandResults) = itemsPerPage \/ Len(creatorResults) = itemsPerPage)
  IN  IF serverHasMore # "undefined" THEN serverHasMore = "true" ELSE clientHasMore

\* The task after its first page is stored: with no hit to enrich the
\* Promise.all of fetchVideoDetailsForResults settles at once and the handler
\* runs to its end in the same step.
AfterFirstPage(t, allResults) ==
  IF allResults = <<>>
    THEN /\ searches' = searches \ {t}
         /\ isSearching' = FALSE
    ELSE /\ searches' = (searches \ {t}) \cup
              {[t EXCEPT !.pc = "details", !.results = allResults]}
         /\ UNCHANGED isSearching

\* Lines 537-595: the response carries data.
TextSearchResponse(t, allResults, tokens, serverHasMore, pageInfo) ==
  /\ t \in searches /\ t.kind = "text" /\ t.pc = "search"
  /\ totalResults' = TotalsOf(pageInfo)
  /\ SetEnhancedResults(allResults)
  /\ currentPage' = 1
  /\ nextPageTokens' = tokens
  /\ hasMoreResults' = HasMore(serverHasMore, allResults)
  /\ AfterFirstPage(t, allResults)
  /\ stored' = (stored \/ t.id = queryVersion)
  /\ UNCHANGED <<isLoadingMore, hasSearched, error, activeFilter, activeFilters,
                 imageSrc, rounds, queryVersion, roundCount, dropped>>
  /\ declared' = pageInfo
  /\ UNCHANGED emptyRound
  /\ UNCHANGED <<match, videoPlayer>>

\* Lines 596-600 and 622-624: the response carries no data.
TextSearchNoData(t) ==
  /\ t \in searches /\ t.kind = "text" /\ t.pc = "search"
  /\ SetEnhancedResults(<<>>)
  /\ totalResults' = NoTotals
  /\ hasMoreResults' = FALSE
  /\ isSearching' = FALSE
  /\ searches' = searches \ {t}
  /\ stored' = (stored \/ t.id = queryVersion)
  /\ UNCHANGED <<nextPageTokens, isLoadingMore, hasSearched, error, currentPage,
                 activeFilter, activeFilters, imageSrc, rounds, queryVersion,
                 roundCount, dropped>>
  /\ declared' = NoDeclared
  /\ UNCHANGED emptyRound
  /\ UNCHANGED <<match, videoPlayer>>

\* A failure path that does not reach the finally block.
TextSearchFailsForGood(t, kind) ==
  /\ t \in searches /\ t.kind = "text" /\ t.pc = "search"
  /\ error' = ErrorMessage(kind)
  /\ searches' = searches \ {t}
  /\ UNCHANGED <<enhancedResults, totalResults, nextPageTokens, hasMoreResults,
                 isLoadingMore, isSearching, hasSearched, currentPage,
                 activeFilter, activeFilters, imageSrc, rounds, history>>
  /\ UNCHANGED <<match, videoPlayer>>

\* Lines 601-624: the request failed.
TextSearchFails(t, kind) ==
  /\ t \in searches /\ t.kind = "text" /\ t.pc = "search"
  /\ error' = ErrorMessage(kind)
  /\ isSearching' = FALSE
  /\ searches' = searches \ {t}
  /\ UNCHANGED <<enhancedResults, totalResults, nextPageTokens, hasMoreResults,
                 isLoadingMore, hasSearched, currentPage, activeFilter,
                 activeFilters, imageSrc, rounds, history>>
  /\ UNCHANGED <<match, videoPlayer>>

\* fetchVideoDetailsForResults(allResults) of a text or image search has
\* settled: the write-back of line 668, then the finally of the handler.
SearchDetails(t, oks) ==
  /\ t \in searches /\ t.pc = "details"
  /\ SetEnhancedResults(UpdatedResults(t.results, oks))
  /\ isSearching' = FALSE
  /\ searches' = searches \ {t}
  /\ UNCHANGED <<totalResults, nextPageTokens, hasMoreResults, isLoadingMore,
                 hasSearched, error, currentPage, activeFilter, activeFilters,
                 imageSrc, rounds, queryVersion, roundCount,
                 stored, dropped>>
  /\ UNCHANGED declared
  /\ UNCHANGED emptyRound
  /\ UNCHANGED <<match, videoPlayer>>

(***************************************************************************)
(* Image search                                                            *)
(***************************************************************************)
\* onDrop and handleImageUrlInput: an image is chosen.
SelectImage ==
  /\ ~imageSrc
  /\ imageSrc' = TRUE
  /\ UNCHANGED <<enhancedResults, totalResults, nextPageTokens, hasMoreResults,
                 isLoadingMore, isSearching, hasSearched, error, currentPage,
                 activeFilter, activeFilters, tasks, history>>
  /\ UNCHANGED <<match, videoPlayer>>

\* Lines 837-850: up to the await of the request.
ApplyCropAndSearch ==
  /\ imageSrc
  /\ isSearching' = TRUE
  /\ SetEnhancedResults(<<>>)
  /\ hasSearched' = TRUE
  /\ nextPageTokens' = NoTokens
  /\ searches' = searches \cup
       {[id |-> queryVersion + 1, kind |-> "image", pc |-> "search", results |-> <<>>]}
  /\ queryVersion' = queryVersion + 1
  /\ stored' = FALSE
  /\ dropped' = 0
  /\ UNCHANGED <<totalResults, hasMoreResults, isLoadingMore, error, currentPage,
                 activeFilter, activeFilters, imageSrc, rounds,
                 roundCount>>
  /\ UNCHANGED declared
  /\ emptyRound' = FALSE
  /\ UNCHANGED <<match, videoPlayer>>

\* Lines 852-896: the response carries data.
ImageSearchResponse(t, allResults, pageInfo) ==
  /\ t \in searches /\ t.kind = "image" /\ t.pc = "search"
  /\ totalResults' = TotalsOf(pageInfo)
  /\ SetEnhancedResults(allResults)
  /\ AfterFirstPage(t, allResults)
  /\ stored' = (stored \/ t.id = queryVersion)
  /\ UNCHANGED <<nextPageTokens, hasMoreResults, isLoadingMore, hasSearched,
                 error, currentPage, activeFilter, activeFilters, imageSrc,
                 rounds, queryVersion, roundCount, dropped>>
  /\ declared' = pageInfo
  /\ UNCHANGED emptyRound
  /\ UNCHANGED <<match, videoPlayer>>

\* Lines 898-902: the response carries no data, or the request failed.
ImageSearchFails(t) ==
  /\ t \in searches /\ t.kind = "image" /\ t.pc = "search"
  /\ isSearching' = FALSE
  /\ searches' = searches \ {t}
  /\ UNCHANGED <<enhancedResults, totalResults, nextPageTokens, hasMoreResults,
                 isLoadingMore, hasSearched, error, currentPage, activeFilter,
                 activeFilters, imageSrc, rounds, history>>
  /\ UNCHANGED <<match, videoPlayer>>

\* Lines 1099-1117: the close button of the active image query.
DismissImage ==
  /\ imageSrc
  /\ imageSrc' = FALSE
  /\ activeFilter' = "all"
  /\ activeFilters' = {}
  /\ enhancedResults' = <<>>
  /\ hasSearched' = FALSE
  /\ stored' = FALSE
  /\ dropped' = 0
  /\ UNCHANGED <<totalResults, nextPageTokens, hasMoreResults, isLoadingMore,
                 isSearching, error, currentPage, tasks, queryVersion,
                 roundCount>>
  /\ UNCHANGED declared
  /\ UNCHANGED emptyRound
  /\ UNCHANGED <<match, videoPlayer>>

\* Lines 440-458.
ClearSearch ==
  /\ imageSrc' = FALSE
  /\ activeFilters' = {}
  /\ activeFilter' = "all"
  /\ enhancedResults' = <<>>
  /\ totalResults' = NoTotals
  /\ hasSearched' = FALSE
  /\ currentPage' = 1
  /\ hasMoreResults' = FALSE
  /\ nextPageTokens' = NoTokens
  /\ isLoadingMore' = FALSE
  /\ stored' = FALSE
  /\ dropped' = 0
  /\ UNCHANGED <<isSearching, error, tasks, queryVersion, roundCount>>
  /\ declared' = NoDeclared
  /\ UNCHANGED emptyRound
  /\ UNCHANGED <<match, videoPlayer>>

(***************************************************************************)
(* Filters                                                                 *)
(***************************************************************************)
\* Lines 217-219 and 1155-1170: a segment of the filter bar is clicked.
ToggleFilter(filter) ==
  /\ Len(enhancedResults) > 0
  /\ filter \in VisibleSegments
  /\ activeFilter' = filter
  /\ enhancedResults' = Rendered(enhancedResults, filter, activeFilters)
  /\ UNCHANGED <<totalResults, nextPageTokens, hasMoreResults, isLoadingMore,
                 isSearching, hasSearched, error, currentPage, activeFilters,
                 imageSrc, tasks, history>>
  /\ UNCHANGED <<match, videoPlayer>>

\* Lines 678-686.
ToggleFormatFilter(filter) ==
  /\ Len(enhancedResults) > 0
  /\ activeFilters' = IF filter \in activeFilters
                        THEN activeFilters \ {filter}
                        ELSE activeFilters \cup {filter}
  /\ enhancedResults' = Rendered(enhancedResults, activeFilter, activeFilters')
  /\ UNCHANGED <<totalResults, nextPageTokens, hasMoreResults, isLoadingMore,
                 isSearching, hasSearched, error, currentPage, activeFilter,
                 imageSrc, tasks, history>>
  /\ UNCHANGED <<match, videoPlayer>>

\* Lines 1138-1142 (Reset) and 1299-1305 (Clear Filters).
ResetFilters(all) ==
  /\ Len(enhancedResults) > 0
  /\ \/ all
     \/ /\ ~isSearching
        /\ hasSearched
        /\ Len(filteredResults(enhancedResults, activeFilter, activeFilters)) = 0
  /\ activeFilters' = {}
  /\ activeFilter' = IF all THEN "all" ELSE activeFilter
  /\ enhancedResults' = Rendered(enhancedResults, activeFilter', {})
  /\ UNCHANGED <<totalResults, nextPageTokens, hasMoreResults, isLoadingMore,
                 isSearching, hasSearched, error, currentPage, imageSrc, tasks, history>>
  /\ UNCHANGED <<match, videoPlayer>>

(***************************************************************************)
(* loadMoreResults                                                         *)
(***************************************************************************)
\* A guard that looks at hasMoreResults and not at isLoadingMore.
LoadMoreResultsUnguarded(maxRounds) ==
  /\ SentinelMounted
  /\ hasMoreResults
  /\ LET requests == Requests(nextPageTokens)
     IN  IF requests = {}
           THEN /\ hasMoreResults' = FALSE
                /\ UNCHANGED <<isLoadingMore, rounds, roundCount>>
           ELSE /\ roundCount < maxRounds
                /\ isLoadingMore' = TRUE
                /\ rounds' = rounds \cup
                     {[id |-> roundCount + 1, version |-> queryVersion,
                       tokens |-> nextPageTokens, pc |-> "requests",
                       responses |-> [p \in requests |-> NoResponse],
                       newResults |-> <<>>, newTokens |-> nextPageTokens]}
                /\ roundCount' = roundCount + 1
                /\ UNCHANGED hasMoreResults
  /\ UNCHANGED <<enhancedResults, totalResults, nextPageTokens, isSearching,
                 hasSearched, error, currentPage, activeFilter, activeFilters,
                 imageSrc, searches, queryVersion, stored, dropped>>
  /\ UNCHANGED declared
  /\ UNCHANGED emptyRound
  /\ UNCHANGED <<match, videoPlayer>>

\* Lines 984-989 and 222-267: the scroll sentinel comes into view.  The
\* callback reads hasMoreResults, isLoadingMore and nextPageTokens of the
\* render it was created in.  At most maxRounds rounds are dispatched in a
\* behaviour.
LoadMoreResultsUpTo(maxRounds) ==
  /\ SentinelMounted
  /\ ~isLoadingMore /\ hasMoreResults
  /\ LET requests == Requests(nextPageTokens)
     IN  IF requests = {}
           THEN /\ hasMoreResults' = FALSE
                /\ UNCHANGED <<isLoadingMore, rounds, roundCount>>
           ELSE /\ roundCount < maxRounds
                /\ isLoadingMore' = TRUE
                /\ rounds' = rounds \cup
                     {[id |-> roundCount + 1, version |-> queryVersion,
                       tokens |-> nextPageTokens, pc |-> "requests",
                       responses |-> [p \in requests |-> NoResponse],
                       newResults |-> <<>>, newTokens |-> nextPageTokens]}
                /\ roundCount' = roundCount + 1
                /\ UNCHANGED hasMoreResults
  /\ UNCHANGED <<enhancedResults, totalResults, nextPageTokens, isSearching,
                 hasSearched, error, currentPage, activeFilter, activeFilters,
                 imageSrc, searches, queryVersion, stored, dropped>>
  /\ UNCHANGED declared
  /\ UNCHANGED emptyRound
  /\ UNCHANGED <<match, videoPlayer>>

LoadMoreResults == LoadMoreResultsUpTo(MaxRounds)

\* Lines 270-278: responses.forEach over the responses in request order.
RECURSIVE NewResults(_, _)
NewResults(responses, order) ==
  IF order = <<>> THEN <<>>
  ELSE LET p == Head(order)
       IN  (IF p \in DOMAIN responses /\ responses[p].hasData
              THEN responses[p].data ELSE <<>>)
           \o NewResults(responses, Tail(order))

NewTokens(tokens, responses) ==
  [p \in DOMAIN tokens \cup {q \in DOMAIN responses : responses[q].hasData} |->
     IF p \in DOMAIN responses /\ responses[p].hasData
       THEN responses[p].next ELSE tokens[p]]

\* The round was dispatched with tokens of the query issued last.
OfCurrentQuery(r) ==
  \A p \in DOMAIN r.responses : r.tokens[p].q = queryVersion

\* A round without hits that leaves hasMoreResults as it is.
FinishRoundKeepsPaging(r, newResultsWithDetails, newTokens) ==
  /\ IF Len(newResultsWithDetails) > 0
       THEN /\ SetEnhancedResults(MergeUnique(enhancedResults, newResultsWithDetails))
            /\ nextPageTokens' = newTokens
            /\ currentPage' = currentPage + 1
            /\ hasMoreResults' = SomeTokenNotNull(newTokens)
            /\ dropped' = Len(enhancedResults) + Len(newResultsWithDetails)
                             - Len(MergeUnique(enhancedResults, newResultsWithDetails))
            /\ UNCHANGED emptyRound
       ELSE /\ emptyRound' = (emptyRound \/ OfCurrentQuery(r))
            /\ UNCHANGED <<enhancedResults, nextPageTokens, currentPage,
                           dropped, hasMoreResults>>
  /\ isLoadingMore' = FALSE
  /\ rounds' = rounds \ {r}

\* Lines 286-312 and 315-317: the part of the round behind the detail fetch.
FinishRound(r, newResultsWithDetails, newTokens) ==
  /\ IF Len(newResultsWithDetails) > 0
       THEN /\ SetEnhancedResults(MergeUnique(enhancedResults, newResultsWithDetails))
            /\ nextPageTokens' = newTokens
            /\ currentPage' = currentPage + 1
            /\ hasMoreResults' = SomeTokenNotNull(newTokens)
            /\ dropped' = Len(enhancedResults) + Len(newResultsWithDetails)
                             - Len(MergeUnique(enhancedResults, newResultsWithDetails))
            /\ UNCHANGED emptyRound
       ELSE /\ hasMoreResults' = FALSE
            /\ emptyRound' = (emptyRound \/ OfCurrentQuery(r))
            /\ UNCHANGED <<enhancedResults, nextPageTokens, currentPage,
                           dropped>>
  /\ isLoadingMore' = FALSE
  /\ rounds' = rounds \ {r}

\* A round that goes on with the first answer instead of waiting for all of
\* them (a race instead of a join).
RoundResponseFirstWins(r, p, response) ==
  /\ r \in rounds /\ r.pc = "requests"
  /\ p \in DOMAIN r.responses /\ ~r.responses[p].arrived
  /\ LET responses == [r.responses EXCEPT ![p] = response]
         newResults == NewResults(responses, RequestOrder)
         newTokens == NewTokens(r.tokens, responses)
     IN  IF newResults = <<>>
           THEN FinishRound(r, <<>>, newTokens)
           ELSE /\ rounds' = (rounds \ {r}) \cup
                     {[r EXCEPT !.responses = responses, !.pc = "details",
                                !.newResults = newResults, !.newTokens = newTokens]}
                /\ UNCHANGED <<enhancedResults, nextPageTokens, hasMoreResults,
                               isLoadingMore, currentPage, dropped,
                               emptyRound>>
  /\ UNCHANGED <<totalResults, isSearching, hasSearched, error, activeFilter,
                 activeFilters, imageSrc, searches,
                 queryVersion, roundCount, stored>>
  /\ UNCHANGED declared
  /\ UNCHANGED <<match, videoPlayer>>

\* One request of the round is answered.  Promise.all settles with the last
\* answer; only then lines 270-284 run.
RoundResponse(r, p, response) ==
  /\ r \in rounds /\ r.pc = "requests"
  /\ p \in DOMAIN r.responses /\ ~r.responses[p].arrived
  /\ LET responses == [r.responses EXCEPT ![p] = response]
         joined == \A q \in DOMAIN responses : responses[q].arrived
         newResults == NewResults(responses, RequestOrder)
         newTokens == NewTokens(r.tokens, responses)
     IN  IF ~joined
           THEN /\ rounds' = (rounds \ {r}) \cup {[r EXCEPT !.responses = responses]}
                /\ UNCHANGED <<enhancedResults, nextPageTokens, hasMoreResults,
                               isLoadingMore, currentPage, dropped,
                               emptyRound>>
         ELSE IF newResults = <<>>
           THEN FinishRound(r, <<>>, newTokens)
           ELSE /\ rounds' = (rounds \ {r}) \cup
                     {[r EXCEPT !.responses = responses, !.pc = "details",
                                !.newResults = newResults, !.newTokens = newTokens]}
                /\ UNCHANGED <<enhancedResults, nextPageTokens, hasMoreResults,
                               isLoadingMore, currentPage, dropped,
                               emptyRound>>
  /\ UNCHANGED <<totalResults, isSearching, hasSearched, error, activeFilter,
                 activeFilters, imageSrc, searches,
                 queryVersion, roundCount, stored>>
  /\ UNCHANGED declared
  /\ UNCHANGED <<match, videoPlayer>>

\* A catch that reports the failed continuation call the way handleTextSearch
\* reports a failed search.
RoundRequestFailsLoudly(r, p) ==
  /\ r \in rounds /\ r.pc = "requests"
  /\ p \in DOMAIN r.responses /\ ~r.responses[p].arrived
  /\ isLoadingMore' = FALSE
  /\ rounds' = rounds \ {r}
  /\ error' = ErrorMessage("other")
  /\ UNCHANGED <<enhancedResults, totalResults, nextPageTokens, hasMoreResults,
                 isSearching, hasSearched, currentPage, activeFilter,
                 activeFilters, imageSrc, searches, history>>
  /\ UNCHANGED <<match, videoPlayer>>

\* A catch that ends pagination the way the branch without hits does.
RoundRequestFailsEndsPaging(r, p) ==
  /\ r \in rounds /\ r.pc = "requests"
  /\ p \in DOMAIN r.responses /\ ~r.responses[p].arrived
  /\ isLoadingMore' = FALSE
  /\ hasMoreResults' = FALSE
  /\ rounds' = rounds \ {r}
  /\ UNCHANGED <<enhancedResults, totalResults, nextPageTokens,
                 isSearching, hasSearched, error, currentPage, activeFilter,
                 activeFilters, imageSrc, searches, history>>
  /\ UNCHANGED <<match, videoPlayer>>

\* One request of the round fails: Promise.all rejects at once, the catch of
\* line 313 logs and the finally ends the round; the other answer is dropped.
RoundRequestFails(r, p) ==
  /\ r \in rounds /\ r.pc = "requests"
  /\ p \in DOMAIN r.responses /\ ~r.responses[p].arrived
  /\ isLoadingMore' = FALSE
  /\ rounds' = rounds \ {r}
  /\ UNCHANGED <<enhancedResults, totalResults, nextPageTokens, hasMoreResults,
                 isSearching, hasSearched, error, currentPage, activeFilter,
                 activeFilters, imageSrc, searches, history>>
  /\ UNCHANGED <<match, videoPlayer>>

\* fetchVideoDetailsForResults(newResults, true) has settled.
RoundDetails(r, oks) ==
  /\ r \in rounds /\ r.pc = "details"
  /\ FinishRound(r, UpdatedResults(r.newResults, oks), r.newTokens)
  /\ UNCHANGED <<totalResults, isSearching, hasSearched, error, activeFilter,
                 activeFilters, imageSrc, searches,
                 queryVersion, roundCount, stored>>
  /\ UNCHANGED declared
  /\ UNCHANGED <<match, videoPlayer>>

(***************************************************************************)
(* Creator-brand match page: handlers.                                     *)
(***************************************************************************)
SourceVideos == {"s1", "s2"}

\* The state updates of handleVideoChange; the tag analysis that follows
\* them writes isAnalyzingTags only.
HandleVideoChange(videoId) ==
  /\ selectedVideoId' = videoId
  /\ similarResults' = <<>>
  /\ embeddingsReady' = FALSE
  /\ UNCHANGED <<sourceType, isAnalyzing, isLoadingEmbeddings,
                 isProcessingTargetEmbeddings, analysis, ended>>
  /\ combined' = NotCombined
  /\ UNCHANGED <<videoPlayer, view, tasks, history>>

\* The two buttons of the source type toggle.
SetSourceType(type) ==
  /\ sourceType' = type
  /\ selectedVideoId' = "null"
  /\ similarResults' = <<>>
  /\ embeddingsReady' = FALSE
  /\ combined' = NotCombined
  /\ UNCHANGED <<isAnalyzing, isLoadingEmbeddings,
                 isProcessingTargetEmbeddings, analysis, ended>>
  /\ UNCHANGED <<videoPlayer, view, tasks, history>>

\* handleFindMatches up to the await of checkAndEnsureEmbeddings; the button
\* is disabled while isAnalyzing.
HandleFindMatches ==
  /\ selectedVideoId # "null"
  /\ ~isAnalyzing
  /\ isAnalyzing' = TRUE
  /\ similarResults' = <<>>
  /\ isLoadingEmbeddings' = TRUE
  /\ isProcessingTargetEmbeddings' = TRUE
  /\ analysis' = [Idle EXCEPT !.pc = "embeddings",
                              !.videoId = selectedVideoId,
                              !.sourceType = sourceType]
  /\ ended' = "running"
  /\ UNCHANGED <<sourceType, selectedVideoId, embeddingsReady>>
  /\ combined' = NotCombined
  /\ UNCHANGED <<videoPlayer, view, tasks, history>>

\* A readiness check whose result is stored and then not looked at.
EmbeddingsCheckedUngated(success) ==
  /\ analysis.pc = "embeddings"
  /\ embeddingsReady' = success
  /\ isLoadingEmbeddings' = FALSE
  /\ isProcessingTargetEmbeddings' = FALSE
  /\ analysis' = [analysis EXCEPT !.pc = "searches"]
  /\ UNCHANGED <<isAnalyzing, ended>>
  /\ UNCHANGED <<sourceType, selectedVideoId, similarResults>>
  /\ UNCHANGED <<videoPlayer, view, tasks, history, combined>>

\* checkAndEnsureEmbeddings resolves; on success the two searches are issued.
EmbeddingsChecked(success) ==
  /\ analysis.pc = "embeddings"
  /\ embeddingsReady' = success
  /\ isLoadingEmbeddings' = FALSE
  /\ isProcessingTargetEmbeddings' = FALSE
  /\ IF success
     THEN /\ analysis' = [analysis EXCEPT !.pc = "searches"]
          /\ UNCHANGED <<isAnalyzing, ended>>
     ELSE /\ analysis' = Idle
          /\ isAnalyzing' = FALSE
          /\ ended' = "notReady"
  /\ UNCHANGED <<sourceType, selectedVideoId, similarResults>>
  /\ UNCHANGED <<videoPlayer, view, tasks, history, combined>>

\* checkAndEnsureEmbeddings rejects: catch, then finally.
EmbeddingsCheckFails ==
  /\ analysis.pc = "embeddings"
  /\ isAnalyzing' = FALSE
  /\ analysis' = Idle
  /\ ended' = "threw"
  /\ UNCHANGED <<sourceType, selectedVideoId, similarResults,
                 isLoadingEmbeddings, isProcessingTargetEmbeddings,
                 embeddingsReady>>
  /\ UNCHANGED <<videoPlayer, view, tasks, history, combined>>

\* The continuation of Promise.all: combine, store, finally.
SetSimilarResults(textResults, videoResults) ==
  /\ similarResults' = combineSearchResults(textResults, videoResults)
  /\ combined' = [textResults |-> textResults, videoResults |-> videoResults,
                   videoId |-> analysis.videoId,
                   sourceType |-> analysis.sourceType]
  /\ isAnalyzing' = FALSE
  /\ analysis' = Idle
  /\ ended' = "stored"

\* textToVideoEmbeddingSearch resolves.
TextResultsArrive(textResults) ==
  /\ analysis.pc = "searches"
  /\ ~analysis.textArrived
  /\ IF analysis.videoArrived
     THEN SetSimilarResults(textResults, analysis.videoResults)
     ELSE /\ analysis' = [analysis EXCEPT !.textArrived = TRUE,
                                          !.textResults = textResults]
          /\ UNCHANGED <<similarResults, isAnalyzing, combined, ended>>
  /\ UNCHANGED <<sourceType, selectedVideoId, isLoadingEmbeddings,
                 isProcessingTargetEmbeddings, embeddingsReady>>
  /\ UNCHANGED <<videoPlayer, view, tasks, history>>

\* videoToVideoEmbeddingSearch resolves.
VideoResultsArrive(videoResults) ==
  /\ analysis.pc = "searches"
  /\ ~analysis.videoArrived
  /\ IF analysis.textArrived
     THEN SetSimilarResults(analysis.textResults, videoResults)
     ELSE /\ analysis' = [analysis EXCEPT !.videoArrived = TRUE,
                                          !.videoResults = videoResults]
          /\ UNCHANGED <<similarResults, isAnalyzing, combined, ended>>
  /\ UNCHANGED <<sourceType, selectedVideoId, isLoadingEmbeddings,
                 isProcessingTargetEmbeddings, embeddingsReady>>
  /\ UNCHANGED <<videoPlayer, view, tasks, history>>

\* One of the two searches rejects: Promise.all rejects, catch, then finally.
SimilaritySearchFails ==
  /\ analysis.pc = "searches"
  /\ isAnalyzing' = FALSE
  /\ analysis' = Idle
  /\ ended' = "threw"
  /\ UNCHANGED <<sourceType, selectedVideoId, similarResults,
                 isLoadingEmbeddings, isProcessingTargetEmbeddings,
                 embeddingsReady>>
  /\ UNCHANGED <<videoPlayer, view, tasks, history, combined>>

(***************************************************************************)
(* VideoPlayer                                                             *)
(***************************************************************************)
\* Line 98: the buffer of 0.05 s in front of endTime.
LoopBuffer == 5

Times == 0..MaxTime

\* Lines 65-66.
shouldLoopSegment ==
  /\ videoPlayer.startTime # NoTime
  /\ videoPlayer.endTime # NoTime
  /\ videoPlayer.endTime > videoPlayer.startTime

\* Lines 55-66: the first render, with the props the parent passes.
RenderVideoPlayer(startTime, endTime) ==
  /\ ~videoPlayer.rendered
  /\ videoPlayer' = [NotRendered EXCEPT !.rendered = TRUE,
                                        !.startTime = startTime,
                                        !.endTime = endTime]
  /\ UNCHANGED <<view, tasks, history, match>>

\* Lines 160-186: the element has its metadata.
HandleReady(autoplay) ==
  /\ videoPlayer.rendered /\ ~videoPlayer.isVideoReady
  /\ videoPlayer' =
       [videoPlayer EXCEPT
          !.isVideoReady = TRUE,
          !.video = IF videoPlayer.startTime # NoTime
                    THEN videoPlayer.startTime ELSE @,
          !.playing = IF autoplay THEN TRUE ELSE @,
          !.looped = FALSE]
  /\ UNCHANGED <<view, tasks, history, match>>

\* Lines 199-209.
TogglePlayPause ==
  /\ videoPlayer.isVideoReady
  /\ videoPlayer' = [videoPlayer EXCEPT !.playing = ~@, !.looped = FALSE]
  /\ UNCHANGED <<view, tasks, history, match>>

\* Lines 369-371.
OnPause ==
  /\ videoPlayer.isVideoReady
  /\ videoPlayer' = [videoPlayer EXCEPT !.playing = FALSE, !.looped = FALSE]
  /\ UNCHANGED <<view, tasks, history, match>>

\* Lines 372-375.
OnPlay ==
  /\ videoPlayer.isVideoReady
  /\ videoPlayer' = [videoPlayer EXCEPT !.playing = TRUE, !.ended = FALSE,
                                        !.looped = FALSE]
  /\ UNCHANGED <<view, tasks, history, match>>

\* A handler that loops at endTime itself, without the buffer.
HandleTimeUpdateExact(time) ==
  /\ videoPlayer.isVideoReady
  /\ IF shouldLoopSegment /\ time >= videoPlayer.endTime
     THEN videoPlayer' = [videoPlayer EXCEPT !.video = videoPlayer.startTime,
                                            !.currentTime = videoPlayer.startTime,
                                            !.ended = FALSE,
                                            !.playing = TRUE,
                                            !.looped = TRUE]
     ELSE videoPlayer' = [videoPlayer EXCEPT !.video = time,
                                            !.currentTime = time,
                                            !.looped = FALSE]
  /\ UNCHANGED <<view, tasks, history, match>>

\* Lines 92-114: a timeupdate event of the element, whose currentTime is
\* time: playback has advanced, or the position was set by the progress bar,
\* by handleReady or by the effect of lines 143-158.  The assignment of a
\* finite number to currentTime does not throw.
HandleTimeUpdate(time) ==
  /\ videoPlayer.isVideoReady
  /\ IF shouldLoopSegment /\ time >= videoPlayer.endTime - LoopBuffer
     THEN videoPlayer' = [videoPlayer EXCEPT !.video = videoPlayer.startTime,
                                            !.currentTime = videoPlayer.startTime,
                                            !.ended = FALSE,
                                            !.playing = TRUE,
                                            !.looped = TRUE]
     ELSE videoPlayer' = [videoPlayer EXCEPT !.video = time,
                                            !.currentTime = time,
                                            !.looped = FALSE]
  /\ UNCHANGED <<view, tasks, history, match>>

\* Lines 376-389: the element has played to the end of the video.
OnEnded ==
  /\ videoPlayer.isVideoReady
  /\ IF shouldLoopSegment /\ videoPlayer.startTime # NoTime
     THEN videoPlayer' = [videoPlayer EXCEPT !.video = videoPlayer.startTime,
                                            !.ended = FALSE,
                                            !.playing = TRUE,
                                            !.looped = TRUE]
     ELSE videoPlayer' = [videoPlayer EXCEPT !.video = MaxTime,
                                            !.ended = TRUE,
                                            !.playing = FALSE,
                                            !.looped = FALSE]
  /\ UNCHANGED <<view, tasks, history, match>>

(***************************************************************************)
(* Specification                                                           *)
(***************************************************************************)
Oks(results) == [1..Len(results) -> BOOLEAN]

\* Answers to the requests of handleTextSearch and of its detail fetch.
TextSearchSettles ==
  \/ \E t \in searches, allResults \in SeqsUpTo(Corpus, MaxBatch),
        pageInfo \in DeclaredTotals :
       \E tokens \in InitialTokens(t.id) :
         \E serverHasMore \in ServerHasMore(tokens) :
           TextSearchResponse(t, allResults, tokens, serverHasMore, pageInfo)
  \/ \E t \in searches : TextSearchNoData(t)
  \/ \E t \in searches, kind \in ErrorKinds : TextSearchFails(t, kind)
  \/ \E t \in searches : \E oks \in Oks(t.results) : SearchDetails(t, oks)

\* The scroll trigger and the answers to a continuation round.
Pagination ==
  \/ LoadMoreResults
  \/ \E r \in rounds : \E p \in DOMAIN r.responses :
       \E response \in TokenResponses(p, r.tokens[p]) : RoundResponse(r, p, response)
  \/ \E r \in rounds : \E p \in DOMAIN r.responses : RoundRequestFails(r, p)
  \/ \E r \in rounds : \E oks \in Oks(r.newResults) : RoundDetails(r, oks)

\* Image search and the answers to its request.
ImageSearch ==
  \/ SelectImage
  \/ queryVersion < MaxQueries + MaxSuperseding /\ ApplyCropAndSearch
  \/ \E t \in searches, allResults \in SeqsUpTo(Corpus, MaxBatch),
        pageInfo \in DeclaredTotals :
       ImageSearchResponse(t, allResults, pageInfo)
  \/ \E t \in searches : ImageSearchFails(t)

FilterBar ==
  \/ \E filter \in {"all", "brands", "creators"} : ToggleFilter(filter)
  \/ \E filter \in {"vertical", "horizontal"} : ToggleFormatFilter(filter)
  \/ \E all \in BOOLEAN : ResetFilters(all)

\* One text query and its pagination.
Next ==
  \/ queryVersion < MaxQueries /\ HandleTextSearch
  \/ TextSearchSettles
  \/ Pagination

Spec == Init /\ [][Next]_vars

\* Text queries that may supersede one another.
NextRace ==
  \/ queryVersion < MaxQueries + MaxSuperseding /\ HandleTextSearch
  \/ TextSearchSettles
  \/ Pagination

SpecRace == Init /\ [][NextRace]_vars

\* A text query, image queries on top of it and the dismissal of the image.
NextImage ==
  \/ queryVersion < MaxQueries /\ HandleTextSearch
  \/ TextSearchSettles
  \/ Pagination
  \/ ImageSearch
  \/ DismissImage

SpecImage == Init /\ [][NextImage]_vars

\* The same with clearSearch, whose only binding in the page (line 1042) is
\* commented out.
NextClear ==
  \/ NextImage
  \/ ClearSearch

SpecClear == Init /\ [][NextClear]_vars

\* Detail fetches that succeed for every hit or fail for every hit.
UniformOks(results) == { [i \in 1..Len(results) |-> ok] : ok \in BOOLEAN }

\* Queries issued one after the other, each once the one before and its rounds
\* have settled, with the continuation rounds of each; detail fetches are
\* uniform and the declared totals fixed.
NextMerge ==
  \/ /\ queryVersion < MaxQueries
     /\ searches = {} /\ rounds = {}
     /\ HandleTextSearch
  \/ \E t \in searches, allResults \in SeqsUpTo(Corpus, MaxBatch) :
       \E tokens \in InitialTokens(t.id) :
         \E serverHasMore \in ServerHasMore(tokens) :
           TextSearchResponse(t, allResults, tokens, serverHasMore,
                              [p \in Partitions |-> Len(allResults)])
  \/ \E t \in searches : \E oks \in UniformOks(t.results) : SearchDetails(t, oks)
  \/ LoadMoreResults
  \/ \E r \in rounds : \E p \in DOMAIN r.responses :
       \E response \in TokenResponses(p, r.tokens[p]) : RoundResponse(r, p, response)
  \/ \E r \in rounds : \E p \in DOMAIN r.responses : RoundRequestFails(r, p)
  \/ \E r \in rounds : \E oks \in UniformOks(r.newResults) : RoundDetails(r, oks)

SpecMerge == Init /\ [][NextMerge]_vars

\* NextMerge with detail fetches that succeed or fail hit by hit and a first
\* response that always carries hasMore.
NextDetails ==
  \/ /\ queryVersion < MaxQueries
     /\ searches = {} /\ rounds = {}
     /\ HandleTextSearch
  \/ \E t \in searches, allResults \in SeqsUpTo(Corpus, MaxBatch) :
       \E tokens \in InitialTokens(t.id) :
         TextSearchResponse(t, allResults, tokens,
                            IF SomeTokenNotNull(tokens) THEN "true" ELSE "false",
                            [p \in Partitions |-> Len(allResults)])
  \/ \E t \in searches : \E oks \in Oks(t.results) : SearchDetails(t, oks)
  \/ LoadMoreResults
  \/ \E r \in rounds : \E p \in DOMAIN r.responses :
       \E response \in TokenResponses(p, r.tokens[p]) : RoundResponse(r, p, response)
  \/ \E r \in rounds : \E oks \in Oks(r.newResults) : RoundDetails(r, oks)

SpecDetails == Init /\ [][NextDetails]_vars

\* The queries of NextMerge with the filter bar in use.
NextFilters ==
  \/ NextMerge
  \/ FilterBar

SpecFilters == Init /\ [][NextFilters]_vars

(***************************************************************************)
(* The filtered and ranked view.                                           *)
(***************************************************************************)
\* Hits of every tier, with and without score, of both indices; v3 is
\* square, v4 and v5 have no dimensions.  The first and the last hit have
\* the same tier and score.
ViewCorpus ==
  { RawHit("v1", 10, 20, brandIndexId, "high", 2),
    RawHit("v2", 0, 5, creatorIndexId, "medium", 1),
    RawHit("v3", 0, 5, creatorIndexId, "High", NoScore),
    RawHit("v4", 0, 5, brandIndexId, "unknown", 1),
    RawHit("v5", 0, 5, creatorIndexId, "high", 2) }

\* One query whose first page is drawn from ViewCorpus, its detail fetch and
\* the filter bar.
NextView ==
  \/ /\ queryVersion < MaxQueries
     /\ searches = {}
     /\ HandleTextSearch
  \/ \E t \in searches, allResults \in SeqsUpTo(ViewCorpus, MaxViewLen) :
       TextSearchResponse(t, allResults, NoTokens, "false",
                          [p \in Partitions |-> 0])
  \/ \E t \in searches : \E oks \in Oks(t.results) : SearchDetails(t, oks)
  \/ FilterBar

SpecView == Init /\ [][NextView]_vars

(***************************************************************************)
(* Scenario A of the pagination merge.                                     *)
(***************************************************************************)
\* The pages of the scenario: the brand index answers 3 hits and a token,
\* the creator index 2 hits and no token; the second brand page has 2 new
\* hits and no token.
ScenarioFirstPage ==
  << RawHit("a1", 0, 5, brandIndexId, "high", 3),
     RawHit("a2", 0, 5, brandIndexId, "medium", 2),
     RawHit("a3", 0, 5, brandIndexId, "low", 1),
     RawHit("b1", 0, 5, creatorIndexId, "high", 2),
     RawHit("b2", 0, 5, creatorIndexId, "low", 2) >>

ScenarioSecondPage ==
  << RawHit("a4", 0, 5, brandIndexId, "high", 1),
     RawHit("a5", 0, 5, brandIndexId, "medium", 1) >>

ScenarioTokens(v) ==
  [p \in Partitions |-> IF p = brandIndexId THEN Token(v, 1) ELSE Null]

ScenarioTotals ==
  [p \in Partitions |-> IF p = brandIndexId THEN 5 ELSE 0]

NextScenarioA ==
  \/ /\ queryVersion < MaxQueries
     /\ searches = {} /\ rounds = {}
     /\ HandleTextSearch
  \/ \E t \in searches :
       \E serverHasMore \in ServerHasMore(ScenarioTokens(t.id)) :
         TextSearchResponse(t, ScenarioFirstPage, ScenarioTokens(t.id),
                            serverHasMore, ScenarioTotals)
  \/ \E t \in searches : \E oks \in Oks(t.results) : SearchDetails(t, oks)
  \/ LoadMoreResults
  \/ \E r \in rounds : \E p \in DOMAIN r.responses :
       RoundResponse(r, p, [arrived |-> TRUE, hasData |-> TRUE,
                            data |-> ScenarioSecondPage, next |-> Null])
  \/ \E r \in rounds : \E oks \in Oks(r.newResults) : RoundDetails(r, oks)

SpecScenarioA == Init /\ [][NextScenarioA]_vars

\* The match page alone: a source video is chosen between runs, and the two
\* similarity searches return any lists of up to MaxMatches results.
NextMatch ==
  \/ \E videoId \in SourceVideos :
       analysis.pc = "idle" /\ HandleVideoChange(videoId)
  \/ HandleFindMatches
  \/ \E success \in BOOLEAN : EmbeddingsChecked(success)
  \/ EmbeddingsCheckFails
  \/ \E textResults \in SearchResultLists : TextResultsArrive(textResults)
  \/ \E videoResults \in SearchResultLists : VideoResultsArrive(videoResults)
  \/ SimilaritySearchFails

SpecMatch == Init /\ [][NextMatch]_vars

\* The match page with similarity scores on and around the level thresholds.
NextLevels ==
  \/ \E videoId \in SourceVideos :
       analysis.pc = "idle" /\ HandleVideoChange(videoId)
  \/ HandleFindMatches
  \/ \E success \in BOOLEAN : EmbeddingsChecked(success)
  \/ EmbeddingsCheckFails
  \/ \E textResults \in ThresholdResultLists : TextResultsArrive(textResults)
  \/ \E videoResults \in ThresholdResultLists : VideoResultsArrive(videoResults)
  \/ SimilaritySearchFails

SpecLevels == Init /\ [][NextLevels]_vars

\* Totals a server can declare with a first page: none for a partition, or a
\* total for a partition that has a hit on the page.
TotalsFor(allResults) ==
  { pageInfo \in DeclaredTotals :
      \A p \in Partitions :
        pageInfo[p] > 0 => \E i \in 1..Len(allResults) : allResults[i].index_id = p }

\* Text queries made one after the other, each with its pagination, answered
\* with totals that fit the page; detail fetches are uniform.
NextCounts ==
  \/ /\ queryVersion < MaxQueries + 1
     /\ searches = {} /\ rounds = {}
     /\ HandleTextSearch
  \/ \E t \in searches, allResults \in SeqsUpTo(Corpus, MaxBatch) :
       \E pageInfo \in TotalsFor(allResults), tokens \in InitialTokens(t.id) :
         \E serverHasMore \in ServerHasMore(tokens) :
           TextSearchResponse(t, allResults, tokens, serverHasMore, pageInfo)
  \/ \E t \in searches : TextSearchNoData(t)
  \/ \E t \in searches : TextSearchFails(t, "500")
  \/ \E t \in searches : \E oks \in UniformOks(t.results) : SearchDetails(t, oks)
  \/ LoadMoreResults
  \/ \E r \in rounds : \E p \in DOMAIN r.responses :
       \E response \in TokenResponses(p, r.tokens[p]) : RoundResponse(r, p, response)
  \/ \E r \in rounds : \E p \in DOMAIN r.responses : RoundRequestFails(r, p)
  \/ \E r \in rounds : \E oks \in UniformOks(r.newResults) : RoundDetails(r, oks)

SpecCounts == Init /\ [][NextCounts]_vars

\* Text queries and then image queries, made one after the other, each with
\* its pagination; every request may fail.  The server reports hasMore, declares no totals,
\* and detail fetches are uniform.
NextSettle ==
  \/ /\ queryVersion < MaxQueries
     /\ searches = {} /\ rounds = {}
     /\ HandleTextSearch
  \/ \E t \in searches, allResults \in SeqsUpTo(Corpus, MaxBatch) :
       \E tokens \in InitialTokens(t.id) :
         TextSearchResponse(t, allResults, tokens,
                            IF SomeTokenNotNull(tokens) THEN "true" ELSE "false",
                            NoDeclared)
  \/ \E t \in searches : TextSearchNoData(t)
  \/ \E t \in searches : TextSearchFails(t, "500")
  \/ \E t \in searches : \E oks \in UniformOks(t.results) : SearchDetails(t, oks)
  \/ SelectImage
  \/ /\ queryVersion < MaxQueries + 1
     /\ searches = {} /\ rounds = {}
     /\ ApplyCropAndSearch
  \/ \E t \in searches, allResults \in SeqsUpTo(Corpus, MaxBatch) :
       ImageSearchResponse(t, allResults, NoDeclared)
  \/ \E t \in searches : ImageSearchFails(t)
  \/ LoadMoreResults
  \/ \E r \in rounds : \E p \in DOMAIN r.responses :
       \E response \in TokenResponses(p, r.tokens[p]) : RoundResponse(r, p, response)
  \/ \E r \in rounds : \E p \in DOMAIN r.responses : RoundRequestFails(r, p)
  \/ \E r \in rounds : \E oks \in UniformOks(r.newResults) : RoundDetails(r, oks)

SpecSettle == Init /\ [][NextSettle]_vars

\* The first page and the continuation pages of the specification that
\* studies the dispatch of rounds: what matters there is the order of the
\* steps and the tokens, not the hits.
RoundsFirstPage == <<RawHit("v1", 10, 20, brandIndexId, "high", 2)>>

RoundsResponses(p, t) ==
  { response \in TokenResponses(p, t) :
      /\ Len(response.data) <= 1
      /\ \A i \in DOMAIN response.data : response.data[i].video_id = "v2" }

\* Text queries submitted at any time, also over a round in flight, with one
\* more round allowed than elsewhere, so that a second round can be tried
\* while the first is in flight and after it has ended.
NextRounds ==
  \/ /\ queryVersion < MaxQueries + 1
     /\ HandleTextSearch
  \/ \E t \in searches : \E tokens \in InitialTokens(t.id) :
       TextSearchResponse(t, RoundsFirstPage, tokens,
                          IF SomeTokenNotNull(tokens) THEN "true" ELSE "false",
                          NoDeclared)
  \/ \E t \in searches : TextSearchFails(t, "500")
  \/ \E t \in searches : \E oks \in UniformOks(t.results) : SearchDetails(t, oks)
  \/ LoadMoreResultsUpTo(MaxRounds + 1)
  \/ \E r \in rounds : \E p \in DOMAIN r.responses :
       \E response \in RoundsResponses(p, r.tokens[p]) : RoundResponse(r, p, response)
  \/ \E r \in rounds : \E p \in DOMAIN r.responses : RoundRequestFails(r, p)
  \/ \E r \in rounds : \E oks \in UniformOks(r.newResults) : RoundDetails(r, oks)

SpecRounds == Init /\ [][NextRounds]_vars

\* One text query at a time, submitted when nothing is in flight, and its
\* rounds, with one more round allowed than elsewhere so that a round that
\* failed can be tried again.
NextRetry ==
  \/ /\ queryVersion < MaxQueries
     /\ searches = {} /\ rounds = {}
     /\ HandleTextSearch
  \/ \E t \in searches, allResults \in SeqsUpTo(Corpus, MaxBatch) :
       \E tokens \in InitialTokens(t.id) :
         TextSearchResponse(t, allResults, tokens,
                            IF SomeTokenNotNull(tokens) THEN "true" ELSE "false",
                            NoDeclared)
  \/ \E t \in searches : \E oks \in UniformOks(t.results) : SearchDetails(t, oks)
  \/ LoadMoreResultsUpTo(MaxRounds + 1)
  \/ \E r \in rounds : \E p \in DOMAIN r.responses :
       \E response \in RoundsResponses(p, r.tokens[p]) : RoundResponse(r, p, response)
  \/ \E r \in rounds : \E p \in DOMAIN r.responses : RoundRequestFails(r, p)
  \/ \E r \in rounds : \E oks \in UniformOks(r.newResults) : RoundDetails(r, oks)

SpecRetry == Init /\ [][NextRetry]_vars

\* The last page of a partition: the backend answers the token of this page
\* without a next token.
LastPage == MaxRounds + 1

\* Rounds that can be needed before every partition is exhausted, and one
\* more: a round goes on only when a partition delivered hits, and that
\* partition's token has then moved on or become null.
PagingRounds == 2 * LastPage + 1

\* Answers of a backend whose partitions have LastPage pages.
PagedResponses(p, t) ==
  { response \in RoundsResponses(p, t) : response.next # Null => t.n < LastPage }

\* The first query over a backend with finitely many pages, every
\* continuation request answered.
NextPaging ==
  \/ /\ queryVersion = 0
     /\ HandleTextSearch
  \/ \E t \in searches : \E tokens \in InitialTokens(t.id) :
       \E serverHasMore \in ServerHasMore(tokens) :
         TextSearchResponse(t, RoundsFirstPage, tokens, serverHasMore, NoDeclared)
  \/ \E t \in searches : \E oks \in UniformOks(t.results) : SearchDetails(t, oks)
  \/ LoadMoreResultsUpTo(PagingRounds)
  \/ \E r \in rounds : \E p \in DOMAIN r.responses :
       \E response \in PagedResponses(p, r.tokens[p]) : RoundResponse(r, p, response)
  \/ \E r \in rounds : \E oks \in UniformOks(r.newResults) : RoundDetails(r, oks)

\* The scroll effect of lines 984-989 runs again after every render in which
\* the sentinel is in view, and every request is answered.
SpecPaging ==
  /\ Init /\ [][NextPaging]_vars
  /\ WF_vars(\E t \in searches : \E tokens \in InitialTokens(t.id) :
               \E serverHasMore \in ServerHasMore(tokens) :
                 TextSearchResponse(t, RoundsFirstPage, tokens, serverHasMore, NoDeclared))
  /\ WF_vars(\E t \in searches : \E oks \in UniformOks(t.results) : SearchDetails(t, oks))
  /\ WF_vars(LoadMoreResultsUpTo(PagingRounds))
  /\ WF_vars(\E r \in rounds : \E p \in DOMAIN r.responses :
               \E response \in PagedResponses(p, r.tokens[p]) : RoundResponse(r, p, response))
  /\ WF_vars(\E r \in rounds : \E oks \in UniformOks(r.newResults) : RoundDetails(r, oks))

\* One player from its first render on, with every startTime and endTime
\* the parent can pass.
NextPlayer ==
  \/ \E startTime \in Times \cup {NoTime}, endTime \in Times \cup {NoTime} :
       RenderVideoPlayer(startTime, endTime)
  \/ \E autoplay \in BOOLEAN : HandleReady(autoplay)
  \/ TogglePlayPause
  \/ OnPause
  \/ OnPlay
  \/ \E time \in Times : HandleTimeUpdate(time)
  \/ OnEnded

SpecPlayer == Init /\ [][NextPlayer]_vars

\* Result lists for the runs whose interleaving matters, not their content.
RaceResultLists == {<<>>, <<EmbeddingSearchResult("m1", 800)>>}

\* The match page with the selection and the direction changed at any time,
\* also while a handleFindMatches call is awaiting a response.
NextMatchRace ==
  \/ \E videoId \in SourceVideos : HandleVideoChange(videoId)
  \/ \E type \in {"brand", "creator"} : SetSourceType(type)
  \/ HandleFindMatches
  \/ \E success \in BOOLEAN : EmbeddingsChecked(success)
  \/ EmbeddingsCheckFails
  \/ \E textResults \in RaceResultLists : TextResultsArrive(textResults)
  \/ \E videoResults \in RaceResultLists : VideoResultsArrive(videoResults)
  \/ SimilaritySearchFails

SpecMatchRace == Init /\ [][NextMatchRace]_vars

(***************************************************************************)
(* Properties                                                              *)
(***************************************************************************)
Pending(r) == { p \in DOMAIN r.responses : ~r.responses[p].arrived }

\* Round r takes a step: only the round itself changes or removes its record.
RoundSteps(r) == r \notin rounds'

\* Round r is over after the step.
RoundEnds(r) == \A r2 \in rounds' : r2.id # r.id

\* C1: no two hits of enhancedResults share the identity key
\* (video_id, start, end), whatever the responses contain.
UniqueIdentityKeys == Cardinality(Keys(enhancedResults)) = Len(enhancedResults)

\* C2: the step in which a search, its detail fetch or a continuation round
\* issued under a superseded query settles changes neither enhancedResults
\* nor nextPageTokens.
StaleResponsesDiscarded ==
  [][/\ \A t \in searches :
          (t.id < queryVersion /\ t \notin searches')
            => UNCHANGED <<enhancedResults, nextPageTokens>>
     /\ \A r \in rounds :
          (r.version < queryVersion /\ RoundSteps(r))
            => UNCHANGED <<enhancedResults, nextPageTokens>>]_vars

\* C3: with no search and no continuation round in flight, hasMoreResults is
\* true exactly when some stored continuation token is non-null.
HasMoreIffTokenStored ==
  (searches = {} /\ rounds = {}) =>
    (hasMoreResults <=> SomeTokenNotNull(nextPageTokens))

\* C4: once the first page of the current query is stored, no step before
\* the next query or clear removes an identity key from enhancedResults.
ResultsOnlyGrow ==
  [][(stored /\ queryVersion' = queryVersion /\ hasSearched')
       => Keys(enhancedResults) \subseteq Keys(enhancedResults')]_vars

\* C5: the step that starts a new query leaves no hit, no continuation token
\* and no hasMore flag of the previous query behind, and a continuation
\* round is only ever dispatched with tokens of the current query.
PreviousQueryDiscarded ==
  [][/\ queryVersion' > queryVersion =>
          /\ enhancedResults' = <<>>
          /\ ~SomeTokenNotNull(nextPageTokens')
          /\ ~hasMoreResults'
     /\ \A r \in rounds' :
          r.id > roundCount =>
            \A p \in DOMAIN r.responses : r.tokens[p].q = queryVersion]_vars

\* C6: from a clear until the next query the result set is empty, whatever
\* request of the cleared query completes in between.
ClearedStaysEmpty == ~hasSearched => enhancedResults = <<>>

\* C7: a round does not end by dropping the answer of a partition that
\* succeeded because the other partition failed: the hits of the successful
\* partition are merged and its token is updated, the token of the failed
\* partition stays as it is.
PartitionFailureAbsorbed ==
  [][\A r \in rounds :
       \A q \in DOMAIN r.responses :
         (/\ r.pc = "requests" /\ RoundEnds(r) /\ Pending(r) # {}
          /\ r.responses[q].arrived /\ r.responses[q].hasData
          /\ r.responses[q].data # <<>>)
           => /\ Keys(r.responses[q].data) \subseteq Keys(enhancedResults')
              /\ StoredToken(nextPageTokens', q) = r.responses[q].next
              /\ \A p \in Pending(r) :
                   StoredToken(nextPageTokens', p) = StoredToken(nextPageTokens, p)]_vars

\* C8: a step of a round that leaves one of its requests unanswered changes
\* none of enhancedResults, nextPageTokens and hasMoreResults, and the round
\* reaches its merge only with every request answered.
MergeAfterJoin ==
  [][/\ \A r \in rounds :
          (RoundSteps(r) /\ Cardinality(Pending(r)) >= 2)
            => UNCHANGED <<enhancedResults, nextPageTokens, hasMoreResults>>
     /\ \A r \in rounds' : r.pc = "details" => Pending(r) = {}]_vars

\* A round with two requests has the first answer, with hits, and waits for
\* the second.
FirstAnswerAlone ==
  \E r \in rounds :
    /\ r.pc = "requests"
    /\ \E p \in DOMAIN r.responses :
         r.responses[p].arrived /\ r.responses[p].data # <<>>
    /\ Pending(r) # {}

\* C9: a round requests exactly the partitions whose stored token is
\* non-null, and the step that ends it leaves the stored token of every
\* partition it did not request as it was.
OneRequestPerEligiblePartition ==
  [][/\ \A r \in rounds' :
          DOMAIN r.responses =
            { p \in Partitions : StoredToken(r.tokens, p) # Null }
     /\ \A r \in rounds :
          RoundEnds(r) =>
            \A p \in Partitions \ DOMAIN r.responses :
              StoredToken(nextPageTokens', p) = StoredToken(nextPageTokens, p)]_vars

\* C10: merging the batch of a round into the result of that round once more
\* changes nothing, a hit whose key the set already held is not added again,
\* and for every batch B and the set S left by a round
\* merge(merge(S, B), B) = merge(S, B).
MergeIdempotent ==
  [][\A r \in rounds :
       (r.pc = "details" /\ RoundEnds(r)) =>
         /\ MergeUnique(enhancedResults', r.newResults) = enhancedResults'
         /\ \A B \in SeqsUpTo(Corpus, MaxBatch) :
              MergeUnique(MergeUnique(enhancedResults', B), B)
                = MergeUnique(enhancedResults', B)
         /\ \A k \in Keys(enhancedResults) :
              Cardinality({ i \in 1..Len(enhancedResults') :
                              ItemKey(enhancedResults'[i]) = k })
                = Cardinality({ i \in 1..Len(enhancedResults) :
                                  ItemKey(enhancedResults[i]) = k })]_vars

\* A merge has met a hit whose key was already in the set.
DuplicateDelivered == dropped > 0 /\ currentPage > 1

\* C11: in scenario A the set holds 5 hits and hasMoreResults is true once
\* the first page is stored, every continuation round queries the brand
\* index alone, and after the merge of the round the set holds 7 hits and
\* hasMoreResults is false.
ScenarioA ==
  /\ (stored /\ currentPage = 1) => (Len(enhancedResults) = 5 /\ hasMoreResults)
  /\ \A r \in rounds : DOMAIN r.responses = {brandIndexId}
  /\ currentPage = 2 => (Len(enhancedResults) = 7 /\ ~hasMoreResults)

\* Scenario A has run to its end.
ScenarioAMerged ==
  currentPage = 2 /\ Len(enhancedResults) = 7 /\ ~hasMoreResults /\ rounds = {}

ViewLeavesResultsAlone ==
  [][(activeFilter' # activeFilter \/ activeFilters' # activeFilters)
       => enhancedResults' = enhancedResults]_vars

\* The list the grid displays.
Displayed == filteredResults(enhancedResults, activeFilter, activeFilters)

\* C14: in the displayed list no hit comes after a hit of lower tier
\* priority (high 3, medium 2, low 1, any other 0), nor after a hit of the
\* same tier priority and lower score, an absent score counting as 0.
RankedByTierThenScore ==
  \A i, j \in 1..Len(Displayed) :
    i < j =>
      LET pi == getConfidencePriority(Displayed[i].confidence)
          pj == getConfidencePriority(Displayed[j].confidence)
      IN  /\ pi >= pj
          /\ pi = pj => ScoreOf(Displayed[i]) >= ScoreOf(Displayed[j])

\* The displayed list holds hits of different tiers and, within one tier, of
\* different scores, one of them absent.
TiersAndScoresDisplayed ==
  /\ Len(Displayed) >= 2
  /\ \/ getConfidencePriority(Displayed[1].confidence)
          > getConfidencePriority(Displayed[2].confidence)
     \/ Displayed[2].score = NoScore

\* Two hits rank alike: same tier priority and same score.
RankAlike(a, b) ==
  /\ getConfidencePriority(a.confidence) = getConfidencePriority(b.confidence)
  /\ ScoreOf(a) = ScoreOf(b)

\* The list the sort of filteredResults is applied to.
Unranked == Filtered(enhancedResults, activeFilter, activeFilters)

\* C15: the hits that rank alike come out of the sort in the order they
\* went in, and ranking the ranked list again yields the same sequence.
RankingStable ==
  /\ \A k \in 1..Len(Unranked) :
       LET Alike(h) == RankAlike(h, Unranked[k])
       IN  SelectSeq(Displayed, Alike) = SelectSeq(Unranked, Alike)
  /\ SortResults(Displayed) = Displayed
  /\ SortResults(Unranked) = Displayed

\* The list to rank starts with two different hits that rank alike.
TiesToRank ==
  /\ Len(Unranked) >= 2
  /\ Unranked[1] # Unranked[2]
  /\ RankAlike(Unranked[1], Unranked[2])

\* A hit matches the partition selection and the format selection.
Selected(h) ==
  /\ \/ activeFilter = "all"
     \/ activeFilter = "brands" /\ h.index_id = brandIndexId
     \/ activeFilter = "creators" /\ h.index_id = creatorIndexId
  /\ \/ activeFilters = {}
     \/ h.format # "undefined" /\ h.format \in activeFilters

Occurrences(s, h) == Cardinality({ i \in 1..Len(s) : s[i] = h })

\* C16: the view holds exactly the hits of enhancedResults that match the
\* partition selection and the format selection, each as often as the set
\* holds it; a hit without format is not in the view when a format is
\* selected.
ViewIsSelection ==
  /\ \A i \in 1..Len(enhancedResults) :
       Occurrences(Displayed, enhancedResults[i])
         = IF Selected(enhancedResults[i])
             THEN Occurrences(enhancedResults, enhancedResults[i]) ELSE 0
  /\ \A i \in 1..Len(Displayed) :
       /\ Occurrences(enhancedResults, Displayed[i]) > 0
       /\ activeFilters # {} => Displayed[i].format # "undefined"

\* A format is selected and the set holds a hit of that format next to a hit
\* without format.
FormatSelectionApplied ==
  /\ activeFilters # {}
  /\ Len(Displayed) >= 1
  /\ \E i \in 1..Len(enhancedResults) : enhancedResults[i].format = "undefined"

\* C17: the format of a hit is horizontal when its detail metadata has both
\* dimensions and width >= height, vertical when it has both and
\* width < height, and absent when it has no details or lacks a dimension.
FormatFromDimensions ==
  \A i \in 1..Len(enhancedResults) :
    LET d == enhancedResults[i].videoDetails
    IN  enhancedResults[i].format =
          IF d.present /\ d.width # 0 /\ d.height # 0
            THEN (IF d.width >= d.height THEN "horizontal" ELSE "vertical")
            ELSE "undefined"

\* The set holds a square video, a wide one or a tall one, and a video
\* without dimensions, each with its details fetched.
SquareAndDimensionless ==
  /\ \E i \in 1..Len(enhancedResults) :
       LET d == enhancedResults[i].videoDetails
       IN  d.present /\ d.width = d.height /\ d.width # 0
  /\ \E i \in 1..Len(enhancedResults) :
       LET d == enhancedResults[i].videoDetails
       IN  d.present /\ d.width = 0

\* The same hit, with or without its details.
SameHit(a, b) ==
  /\ ItemKey(a) = ItemKey(b)
  /\ a.index_id = b.index_id
  /\ a.confidence = b.confidence
  /\ a.score = b.score

\* C18: when the detail fetch of an initial search settles, the set holds
\* every hit of the response, and when the detail fetch of a continuation
\* round settles, the round is merged and the set holds the key of every
\* hit of the round, whichever per-hit fetches failed; a hit whose fetch
\* failed is held without details and without format.
DetailFailureIsolated ==
  [][/\ \A t \in searches :
          (t.pc = "details" /\ t \notin searches') =>
            /\ Len(enhancedResults') = Len(t.results)
            /\ \A i \in 1..Len(t.results) :
                 \E j \in 1..Len(enhancedResults') :
                   SameHit(t.results[i], enhancedResults'[j])
     /\ \A r \in rounds :
          (r.pc = "details" /\ RoundEnds(r)) =>
            /\ currentPage' = currentPage + 1
            /\ Keys(r.newResults) \subseteq Keys(enhancedResults')
     /\ \A j \in 1..Len(enhancedResults') :
          ~enhancedResults'[j].videoDetails.present
            => enhancedResults'[j].format = "undefined"]_vars

\* After a continuation round the set holds a hit with details next to a
\* hit whose detail fetch failed.
DetailsPartlyFetched ==
  /\ currentPage = 2 /\ rounds = {} /\ searches = {}
  /\ \E i, j \in 1..Len(enhancedResults) :
       /\ enhancedResults[i].videoDetails.present
       /\ ~enhancedResults[j].videoDetails.present

\* C19: every match of the list with origin BOTH has level High and a score
\* equal to the larger of its stored textScore and videoScore times 1.15.
BothIsHighAndBoosted ==
  \A i \in 1..Len(similarResults) :
    LET m == similarResults[i]
        larger == IF m.textScore > m.videoScore THEN m.textScore
                  ELSE m.videoScore
    IN  m.originalSource = "BOTH" =>
          /\ getMatchLevelPriority(getMatchLevel(m.score, m.originalSource)) = 3
          /\ m.textScore # NoScore
          /\ m.videoScore # NoScore
          /\ m.score * 100 = larger * 115

\* Witness of C19: a match found by both searches with different scores, whose
\* boosted score alone would not reach the High threshold.
BothBelowHighThreshold ==
  \E i \in 1..Len(similarResults) :
    /\ similarResults[i].originalSource = "BOTH"
    /\ similarResults[i].textScore > 0
    /\ similarResults[i].textScore # similarResults[i].videoScore
    /\ similarResults[i].score < 1000

OccursIn(results, videoId) ==
  \E j \in 1..Len(results) : results[j].videoId = videoId

\* C20: a match is tagged BOTH exactly when its id occurs in both lists the
\* combiner took, TEXT exactly when it occurs in textResults only, and VIDEO
\* exactly when it occurs in videoResults only.
TaggedByOccurrence ==
  \A i \in 1..Len(similarResults) :
    LET m == similarResults[i]
        inText == OccursIn(combined.textResults, m.videoId)
        inVideo == OccursIn(combined.videoResults, m.videoId)
    IN  /\ m.originalSource = "BOTH" <=> (inText /\ inVideo)
        /\ m.originalSource = "TEXT" <=> (inText /\ ~inVideo)
        /\ m.originalSource = "VIDEO" <=> (~inText /\ inVideo)

\* Witness of C20: the combiner took a videoResults list in which an id occurs
\* twice and stored a match for it.
RepeatedIdCombined ==
  /\ similarResults # <<>>
  /\ \E j, k \in 1..Len(combined.videoResults) :
       /\ j # k
       /\ combined.videoResults[j].videoId = combined.videoResults[k].videoId
       /\ combined.videoResults[j].videoId # NoVideoId

\* C21: a match with origin TEXT or VIDEO carries the score its one search
\* returned for it, and its level is High from 1 on, Medium from 0.5 up to 1,
\* and Low below 0.5.
SingleSourceScoreAndLevel ==
  \A i \in 1..Len(similarResults) :
    LET m == similarResults[i]
        results == IF m.originalSource = "TEXT" THEN combined.textResults
                   ELSE combined.videoResults
    IN  m.originalSource \in {"TEXT", "VIDEO"} =>
          /\ \E j \in 1..Len(results) :
               results[j].videoId = m.videoId /\ results[j].score = m.score
          /\ getMatchLevel(m.score, m.originalSource) = "High" <=> m.score >= 1000
          /\ getMatchLevel(m.score, m.originalSource) = "Medium" <=>
               (m.score >= 500 /\ m.score < 1000)
          /\ getMatchLevel(m.score, m.originalSource) = "Low" <=> m.score < 500

\* Witness of C21: a TEXT match exactly on the Medium threshold next to a VIDEO
\* match exactly on the High threshold.
SingleSourceOnThresholds ==
  \E i, j \in 1..Len(similarResults) :
    /\ similarResults[i].originalSource = "TEXT"
    /\ similarResults[i].score = 500
    /\ similarResults[j].originalSource = "VIDEO"
    /\ similarResults[j].score = 1000

\* Level priority of a stored match: High 3, Medium 2, Low 1.
LevelPriority(m) ==
  IF m.originalSource = "BOTH" \/ m.score >= 1000 THEN 3
  ELSE IF m.score >= 500 THEN 2
  ELSE 1

\* Position at which an id first occurs in textResults followed by
\* videoResults: the order in which the combiner first met the ids.
FirstMet(videoId) ==
  LET all == combined.textResults \o combined.videoResults
  IN  CHOOSE j \in 1..Len(all) :
        /\ all[j].videoId = videoId
        /\ \A k \in 1..(j - 1) : all[k].videoId # videoId

\* C22: the match list is ordered by level priority descending, within a level
\* by score descending, and matches equal in both stand in the order in which
\* the combiner first met them; textResults = [m1:0.8] with videoResults =
\* [m1:0.6, m2:1.2] gives the order [m2, m1].
SortedByLevelThenScore ==
  /\ \A i, j \in 1..Len(similarResults) :
       LET a == similarResults[i]
           b == similarResults[j]
       IN  i < j =>
             /\ LevelPriority(a) >= LevelPriority(b)
             /\ LevelPriority(a) = LevelPriority(b) => a.score >= b.score
             /\ (LevelPriority(a) = LevelPriority(b) /\ a.score = b.score) =>
                  FirstMet(a.videoId) < FirstMet(b.videoId)
  /\ ( /\ combined.textResults = <<EmbeddingSearchResult("m1", 800)>>
       /\ combined.videoResults = <<EmbeddingSearchResult("m1", 600),
                                    EmbeddingSearchResult("m2", 1200)>> ) =>
       /\ Len(similarResults) = 2
       /\ similarResults[1].videoId = "m2"
       /\ similarResults[2].videoId = "m1"

\* Witness of C22: the combiner took the lists of the example and the sort
\* moved m2 in front of m1, which it had met first.
ExampleCombined ==
  /\ combined.textResults = <<EmbeddingSearchResult("m1", 800)>>
  /\ combined.videoResults = <<EmbeddingSearchResult("m1", 600),
                               EmbeddingSearchResult("m2", 1200)>>
  /\ Len(similarResults) = 2

\* C23 as stated: no match with origin BOTH stands behind a match with origin
\* TEXT or VIDEO, whatever the score of the latter.
BothNeverBehindSingle ==
  \A i, j \in 1..Len(similarResults) :
    ( /\ i < j
      /\ similarResults[i].originalSource \in {"TEXT", "VIDEO"} ) =>
      similarResults[j].originalSource # "BOTH"

\* C23 amended: no match with origin BOTH stands behind a match with origin
\* TEXT or VIDEO whose score is below 1.
BothNeverBehindSingleBelowHigh ==
  \A i, j \in 1..Len(similarResults) :
    ( /\ i < j
      /\ similarResults[i].originalSource \in {"TEXT", "VIDEO"}
      /\ similarResults[i].score < 1000 ) =>
      similarResults[j].originalSource # "BOTH"

\* Witness of C23: a match with origin BOTH stands in front of a single-source
\* match whose score is the higher of the two.
BothAheadOfHigherScore ==
  \E i, j \in 1..Len(similarResults) :
    /\ i < j
    /\ similarResults[i].originalSource = "BOTH"
    /\ similarResults[j].originalSource \in {"TEXT", "VIDEO"}
    /\ similarResults[j].score > similarResults[i].score

\* C24: when checkAndEnsureEmbeddings reports success = false, the run ends in
\* that step: no similarity search is awaited, nothing was combined, and the
\* match list is empty.
ReadinessGate ==
  [][ ( /\ analysis.pc = "embeddings"
        /\ ~isLoadingEmbeddings'
        /\ ~embeddingsReady' ) =>
      ( /\ analysis' = Idle
        /\ ~isAnalyzing'
        /\ similarResults' = <<>>
        /\ combined' = NotCombined ) ]_vars

\* Witness of C24: the last run was ended by a readiness failure.
ReadinessFailed ==
  /\ ended = "notReady"
  /\ analysis = Idle
  /\ similarResults = <<>>

\* C28: a non-empty match list was computed for the source video that is
\* selected now and for the direction that is set now.
MatchesOfCurrentSelection ==
  similarResults # <<>> =>
    /\ combined.videoId = selectedVideoId
    /\ combined.sourceType = sourceType

\* Witness of C28: the selection was changed while a handleFindMatches call
\* for another video was awaiting a response.
SelectionChangedInFlight ==
  /\ analysis.pc # "idle"
  /\ analysis.videoId # selectedVideoId

\* Number of hits of a partition in the aggregated set.
HitsOf(p) == Len(SelectSeq(enhancedResults, LAMBDA h : h.index_id = p))

\* C25: while the filter bar is rendered, the count reported for a partition
\* is the total that partition declared in the last initial response, when it
\* declared one, and otherwise the number of its hits in the set.
ReportedCounts ==
  enhancedResults # <<>> =>
    /\ brandResultCount =
         IF declared[brandIndexId] > 0 THEN declared[brandIndexId]
         ELSE HitsOf(brandIndexId)
    /\ creatorResultCount =
         IF declared[creatorIndexId] > 0 THEN declared[creatorIndexId]
         ELSE HitsOf(creatorIndexId)

\* Witness of C25: a query whose initial response declared a total for one
\* partition and none for the other, which has a hit in the set.
TotalDeclaredForOnePartition ==
  /\ declared[brandIndexId] > 0
  /\ declared[creatorIndexId] = 0
  /\ HitsOf(creatorIndexId) > 0

\* C26: once every request of handleTextSearch, applyCropAndSearch and
\* loadMoreResults has settled, isSearching and isLoadingMore, the flag that
\* holds back a continuation round, are false and a new query can be started.
SettledIsIdle ==
  (searches = {} /\ rounds = {}) =>
    /\ ~isSearching
    /\ ~isLoadingMore
    /\ ENABLED HandleTextSearch

\* Witness of C26: a text query whose request failed and after it an image
\* query whose request failed have settled.
SettledAfterFailure ==
  /\ searches = {} /\ rounds = {}
  /\ error # "null"
  /\ queryVersion > 1
  /\ imageSrc
  /\ ~stored

\* C27 as stated: the error message of the search session stays unset.
ErrorStaysUnset == error = "null"

\* C27 amended: the error message is set only by a step that settles the
\* request of a text search; a failed continuation call and a failed image
\* search leave it as it is.
OnlyTextSearchSetsError ==
  [][ (error' # error /\ error' # "null") =>
        \E t \in searches :
          t.kind = "text" /\ t.pc = "search" /\ t \notin searches' ]_vars

\* Witness of C27: a continuation round was ended by the failure of one of its
\* requests, with no merge and no error message.
RoundFailedQuietly ==
  /\ roundCount > 0
  /\ rounds = {}
  /\ hasMoreResults
  /\ currentPage = 1
  /\ error = "null"

\* C29: a token table without a token gets one only from the answer to a text
\* search, and a step of a continuation round dispatched for an earlier query
\* adds no hit to the set.
TokensEmptyUntilTextSearch ==
  [][ /\ (~SomeTokenNotNull(nextPageTokens) /\ SomeTokenNotNull(nextPageTokens')) =>
           \E t \in searches :
             t.kind = "text" /\ t.pc = "search" /\ t \notin searches'
      /\ \A r \in rounds :
           (RoundSteps(r) /\ r.version # queryVersion) =>
             Keys(enhancedResults') \subseteq Keys(enhancedResults) ]_vars

\* Witness of C29: an image search was started while a continuation round of
\* the text query before it was awaiting its responses.
ImageSearchOverRound ==
  /\ \E t \in searches : t.kind = "image" /\ t.id = queryVersion
  /\ \E r \in rounds : r.pc = "requests" /\ r.version # queryVersion

\* C30: at most one continuation round is in flight at any time.  A round
\* is dispatched only by a step taken with isLoadingMore false and
\* hasMoreResults true, and only when no other round is in flight.
OneRoundInFlight ==
  [][ /\ Cardinality(rounds') <= 1
      /\ (\E r \in rounds' : \A r2 \in rounds : r2.id # r.id) =>
           (~isLoadingMore /\ hasMoreResults /\ rounds = {}) ]_vars

\* The sentinel is in view with tokens stored and a further round allowed,
\* while a round is in flight: only the guard holds the next round back.
RoundHeldBack ==
  /\ rounds # {} /\ isLoadingMore /\ hasMoreResults
  /\ SentinelMounted
  /\ Requests(nextPageTokens) # {}
  /\ roundCount < MaxRounds + 1

\* C31: a continuation round in which a request fails writes none of
\* enhancedResults, nextPageTokens, currentPage and hasMoreResults: the
\* tokens stored are still the ones the round was dispatched with and
\* hasMoreResults is still true, so the next trigger sends the same requests.
FailedRoundLeavesPage ==
  [][ \A r \in rounds : \A p \in DOMAIN r.responses :
        RoundRequestFails(r, p) =>
          /\ UNCHANGED <<enhancedResults, nextPageTokens, currentPage,
                         hasMoreResults>>
          /\ nextPageTokens' = r.tokens
          /\ hasMoreResults'
          /\ Requests(nextPageTokens') = DOMAIN r.responses ]_vars

\* The first round of the query has failed and the second one is in flight:
\* nothing was appended, the page counter stands at 1 and the second round
\* was dispatched with the tokens of the first page.
FailedRoundRetried ==
  /\ queryVersion = 1 /\ currentPage = 1
  /\ \E r \in rounds :
       /\ r.id = MaxRounds + 1 /\ r.pc = "requests"
       /\ r.tokens = nextPageTokens
       /\ Pending(r) # DOMAIN r.responses

\* C32: when handleFindMatches has finished, by whichever path, isAnalyzing,
\* isLoadingEmbeddings and isProcessingTargetEmbeddings are all false.
FlagsClearedWhenFinished ==
  ended \in {"stored", "notReady", "threw"} =>
    /\ ~isAnalyzing
    /\ ~isLoadingEmbeddings
    /\ ~isProcessingTargetEmbeddings

\* checkAndEnsureEmbeddings has thrown and the call has ended in its finally.
ReadinessCheckThrew ==
  /\ ended = "threw" /\ analysis = Idle /\ ~isAnalyzing
  /\ ~embeddingsReady
  /\ similarResults = <<>>

\* C33: pagination terminates.  Over a backend with finitely many pages
\* whose continuation requests all succeed, and with the scroll trigger
\* firing whenever the sentinel is in view, a state with hasMoreResults true
\* and results on the page leads to a state with hasMoreResults false.
PaginationTerminates ==
  (hasMoreResults /\ enhancedResults # <<>>) ~> ~hasMoreResults

\* The backend has answered the token of its last page with hits and without
\* a next token, and pagination has ended.
LastPageReached ==
  /\ ~hasMoreResults /\ rounds = {} /\ searches = {}
  /\ currentPage > 1
  /\ nextPageTokens # NoTokens
  /\ ~SomeTokenNotNull(nextPageTokens)

\* C34: a continuation round without hits ends pagination for the query.
\* The step that ends it stores no token, and from then on, until a new
\* query is issued, hasMoreResults is false and no round is dispatched.
EmptyRoundEndsPaging ==
  [][ /\ (~emptyRound /\ emptyRound') => nextPageTokens' = nextPageTokens
      /\ emptyRound' => ~hasMoreResults'
      /\ emptyRound => \A r \in rounds' : \E r2 \in rounds : r2.id = r.id ]_vars

\* A round of the current query has ended without hits while the request of
\* an earlier query is still awaiting its response.
EmptyRoundBeforeStaleResponse ==
  /\ emptyRound /\ ~hasMoreResults /\ rounds = {}
  /\ \E t \in searches : t.id < queryVersion /\ t.pc = "search"

\* The entity ids that occur in a result list, entries without one left out.
IdsOf(results) ==
  { results[i].videoId : i \in 1..Len(results) } \ {NoVideoId}

\* C35: the combiner's output holds each entity id at most once, and its ids
\* are exactly the ids that occur in textResults or in videoResults; entries
\* without an id are dropped.
CombinedIdsExactlyOnce ==
  /\ \A i, j \in 1..Len(similarResults) :
       similarResults[i].videoId = similarResults[j].videoId => i = j
  /\ { similarResults[i].videoId : i \in 1..Len(similarResults) } =
       IdsOf(combined.textResults) \cup IdsOf(combined.videoResults)

\* The combiner took a textResults list with an entry without an id and an
\* id that videoResults holds as well, and stored the one match.
CombinedDropsAndMerges ==
  /\ ended = "stored"
  /\ OccursIn(combined.textResults, NoVideoId)
  /\ \E videoId \in TargetVideos :
       /\ OccursIn(combined.textResults, videoId)
       /\ OccursIn(combined.videoResults, videoId)
  /\ Len(similarResults) = 1

\* C36: while results are displayed, the count shown for 'All' is the sum
\* of the counts shown for 'Brands' and for 'Creators'.
CountsAddUp ==
  enhancedResults # <<>> =>
    allResultCount = brandResultCount + creatorResultCount

\* Results are displayed, the stored totals hold a total for the brand
\* partition and none for the creator partition, and the set holds a creator
\* hit: 'All' shows the stored total and 'Creators' counts the hits.
CountsFromTwoSources ==
  /\ ~isSearching /\ enhancedResults # <<>>
  /\ totalResults.all > 0
  /\ totalResults.brands > 0
  /\ totalResults.creators = 0
  /\ creatorResultCount > 0

\* C37: with a valid loop segment the player is never in the ended state: a
\* time update at or beyond endTime minus the buffer, and an ended event,
\* seek back to startTime, keep ended false and set playing true.
LoopNeverEnds ==
  [][ shouldLoopSegment =>
        /\ ~videoPlayer'.ended
        /\ \A time \in Times :
             (HandleTimeUpdate(time) /\ time >= videoPlayer.endTime - LoopBuffer) =>
               /\ videoPlayer'.video = videoPlayer.startTime
               /\ videoPlayer'.playing
        /\ OnEnded =>
             /\ videoPlayer'.video = videoPlayer.startTime
             /\ videoPlayer'.playing ]_vars

\* A paused player has looped back from inside the buffer in front of
\* endTime to a startTime other than 0 and plays.
LoopedInsideBuffer ==
  /\ shouldLoopSegment /\ videoPlayer.looped
  /\ videoPlayer.startTime > 0
  /\ videoPlayer.endTime > LoopBuffer
  /\ videoPlayer.video = videoPlayer.startTime
  /\ videoPlayer.playing /\ ~videoPlayer.ended

====
